---- MODULE Spec2Model ----
(***************************************************************************)
(* Model of the justETF exporter (src/export_etf_csv.py): the normalizer   *)
(* build_overview_rows, the flat writer write_overview_csv and the         *)
(* projection-sheet builder write_projection_csv, with the pure helpers    *)
(* they call (parse_percent, fmt_number, excel_col_name).                  *)
(* The return analytics (compute_cagr_from_heatmap,                        *)
(* compute_yearly_returns_from_heatmap, the launch-date and category       *)
(* helpers) are called one at a time under SpecFn, and the main loop of    *)
(* the scraper (src/scrape_justetf.py) runs under SpecScrape.              *)
(*                                                                         *)
(* Text is a sequence of one-character strings.  A number is a decimal     *)
(* [m, e] standing for m * 10^-e.  A cell of the projection sheet is a     *)
(* sequence of tokens: literal text fragments and cell references; the     *)
(* empty sequence is the empty string "".                                  *)
(***************************************************************************)
EXTENDS Integers, Sequences, FiniteSets, TLC

\* ---------------------------------------------------------------- bounds
MaxFiles == 4
MaxYears == 2
MaxIndex == 800
MaxPoints == 3
MaxIsins == 2

\* ------------------------------------------------------- values and text
None == [tag |-> "None"]

RECURSIVE Pow10(_)
Pow10(k) == IF k <= 0 THEN 1 ELSE 10 * Pow10(k - 1)

RECURSIVE Norm(_, _)
\* the float a decimal literal denotes: trailing fraction zeros carry no value
Norm(m, e) ==
  IF e > 0 /\ m % 10 = 0 THEN Norm(m \div 10, e - 1)
  ELSE [tag |-> "num", m |-> m, e |-> e]

IsNumber(v) == v.tag = "num"

\* a str value (a JSON field that may also be absent: None)
Text(s) == [tag |-> "str", s |-> s]

Abs(x) == IF x < 0 THEN -x ELSE x

\* x / 100.0
Div100(v) == Norm(v.m, v.e + 2)

DigitChars == <<"0", "1", "2", "3", "4", "5", "6", "7", "8", "9">>

IsDigit(c) == \E d \in 1..10 : DigitChars[d] = c

DigitValue(c) == (CHOOSE d \in 1..10 : DigitChars[d] = c) - 1

RECURSIVE Digits(_)
\* decimal digits of a natural number, most significant first
Digits(n) ==
  IF n < 10 THEN <<DigitChars[n + 1]>>
  ELSE Append(Digits(n \div 10), DigitChars[(n % 10) + 1])

RECURSIVE PadDigits(_, _)
\* the low `width` digits of n, zero padded
PadDigits(n, width) ==
  IF width = 0 THEN <<>>
  ELSE Append(PadDigits(n \div 10, width - 1), DigitChars[(n % 10) + 1])

RECURSIVE RStrip(_, _)
\* str.rstrip(c)
RStrip(text, c) ==
  IF text # <<>> /\ text[Len(text)] = c
  THEN RStrip(SubSeq(text, 1, Len(text) - 1), c)
  ELSE text

\* str.replace(a, b) for single characters
ReplaceChar(text, a, b) ==
  [i \in 1..Len(text) |-> IF text[i] = a THEN b ELSE text[i]]

\* str.replace(c, "")
RemoveChar(text, c) == SelectSeq(text, LAMBDA x : x # c)

RECURSIVE ShiftRight(_, _)
\* n // 10^k
ShiftRight(n, k) == IF k = 0 THEN n ELSE ShiftRight(n \div 10, k - 1)

\* round(value, ndigits) of the decimal m * 10^-e with e > ndigits, as an
\* integer count of 10^-ndigits units (ties to even)
RoundUnits(m, e, ndigits) ==
  LET p == Pow10(e - ndigits)
      q == m \div p
      r == m % p
  IN  IF 2 * r > p \/ (2 * r = p /\ q % 2 = 1) THEN q + 1 ELSE q

\* fmt_number: round, print with ndigits decimals, strip the trailing zeros
\* and a trailing point, put a comma for the point
FmtNumber(value, ndigits) ==
  IF ~IsNumber(value) THEN <<>>
  ELSE LET exact == value.e <= ndigits
           u     == IF exact THEN Abs(value.m)
                    ELSE RoundUnits(Abs(value.m), value.e, ndigits)
           scale == IF exact THEN value.e ELSE ndigits
           sign  == IF value.m < 0 THEN <<"-">> ELSE <<>>
           full  == sign \o Digits(ShiftRight(u, scale)) \o <<".">>
                         \o PadDigits(u, scale)
                         \o [i \in 1..(ndigits - scale) |-> "0"]
       IN  ReplaceChar(RStrip(RStrip(full, "0"), "."), ".", ",")

\* str(n) for a natural number
Str(n) == Digits(n)

\* --------------------------------------------------------------- parsing
NBSP == "nbsp"

\* re.sub(r"\s+", " ", ...): a whitespace run becomes one space
CollapseSpaces(text) ==
  LET keep == {i \in 1..Len(text) : ~(text[i] = " " /\ i > 1 /\ text[i - 1] = " ")}
      RECURSIVE Pick(_)
      Pick(i) == IF i > Len(text) THEN <<>>
                 ELSE IF i \in keep THEN <<text[i]>> \o Pick(i + 1)
                 ELSE Pick(i + 1)
  IN  Pick(1)

\* str.strip() on text whose whitespace is the single space
Strip(text) ==
  LET nonsp == {i \in 1..Len(text) : text[i] # " "}
  IN  IF nonsp = {} THEN <<>>
      ELSE SubSeq(text, CHOOSE i \in nonsp : \A j \in nonsp : i <= j,
                        CHOOSE i \in nonsp : \A j \in nonsp : i >= j)

\* clean_spaces
CleanSpaces(value) == Strip(CollapseSpaces(ReplaceChar(value, NBSP, " ")))

RECURSIVE RemoveSub(_, _)
\* str.replace(sub, ""): left to right, non-overlapping
RemoveSub(text, sub) ==
  IF Len(text) < Len(sub) THEN text
  ELSE IF SubSeq(text, 1, Len(sub)) = sub
       THEN RemoveSub(SubSeq(text, Len(sub) + 1, Len(text)), sub)
       ELSE <<text[1]>> \o RemoveSub(SubSeq(text, 2, Len(text)), sub)

RECURSIVE DigitRunEnd(_, _)
\* index of the last digit of the digit run that starts at i (i - 1 if none)
DigitRunEnd(text, i) ==
  IF i <= Len(text) /\ IsDigit(text[i]) THEN DigitRunEnd(text, i + 1) ELSE i - 1

RECURSIVE DigitsToInt(_)
DigitsToInt(ds) ==
  IF ds = <<>> THEN 0
  ELSE 10 * DigitsToInt(SubSeq(ds, 1, Len(ds) - 1)) + DigitValue(ds[Len(ds)])

\* parse_percent: first match of -?\d+(?:[\.,]\d+)? in the cleaned text
ParsePercent(value) ==
  IF value.tag # "str" \/ value.s = <<>> THEN None
  ELSE
    LET text   == RemoveChar(RemoveSub(RemoveChar(CleanSpaces(value.s), "%"),
                                        <<"p", ".", "a", ".">>), "+")
        starts == {i \in 1..Len(text) :
                     \/ IsDigit(text[i])
                     \/ text[i] = "-" /\ i < Len(text) /\ IsDigit(text[i + 1])}
    IN  IF starts = {} THEN None
        ELSE
          LET s0   == CHOOSE i \in starts : \A j \in starts : i <= j
              neg  == text[s0] = "-"
              d0   == IF neg THEN s0 + 1 ELSE s0
              d1   == DigitRunEnd(text, d0)
              frac == d1 + 2 <= Len(text) /\ text[d1 + 1] \in {".", ","}
                        /\ IsDigit(text[d1 + 2])
              f1   == IF frac THEN DigitRunEnd(text, d1 + 2) ELSE d1
              ip   == SubSeq(text, d0, d1)
              fp   == IF frac THEN SubSeq(text, d1 + 2, f1) ELSE <<>>
              mag  == DigitsToInt(ip \o fp)
          IN  Norm(IF neg THEN -mag ELSE mag, Len(fp))

\* ------------------------------------------------------ sheet addressing
Letters == <<"A", "B", "C", "D", "E", "F", "G", "H", "I", "J", "K", "L", "M",
             "N", "O", "P", "Q", "R", "S", "T", "U", "V", "W", "X", "Y", "Z">>

ExcelColNameNoShift(index_one_based) ==
  LET RECURSIVE Loop(_, _)
      Loop(n, result) ==
        IF n > 0 THEN Loop(n \div 26, <<Letters[(n % 26) + 1]>> \o result)
        ELSE result
  IN  Loop(index_one_based, <<>>)

\* excel_col_name: while n > 0: n, rem = divmod(n - 1, 26); prepend chr(65 + rem)
ExcelColName(index_one_based) ==
  LET RECURSIVE Loop(_, _)
      Loop(n, result) ==
        IF n > 0
        THEN Loop((n - 1) \div 26, <<Letters[((n - 1) % 26) + 1]>> \o result)
        ELSE result
  IN  Loop(index_one_based, <<>>)

\* ------------------------------------------------------------ sheet cells
\* literal text fragment of a cell
Lit(s) == [k |-> "txt", s |-> s, col |-> <<>>, row |-> 0, absc |-> FALSE, absr |-> FALSE]

\* a cell address inside a formula: COLROW, COL$ROW or $COL$ROW
Ref(col, row, absc, absr) ==
  [k |-> "ref", s |-> "", col |-> col, row |-> row, absc |-> absc, absr |-> absr]

\* a cell holding plain text
TextCell(s) == IF s = "" THEN <<>> ELSE <<Lit(s)>>

\* the characters of a formatted number, as cell content
Chars(text) == [i \in 1..Len(text) |-> Lit(text[i])]

Blank == <<>>

\* blank_row
BlankRow(col_count) == [c \in 1..col_count |-> Blank]

RECURSIVE EnsureRow(_, _, _)
\* ensure_row: while len(matrix) <= idx: matrix.append(blank_row())
EnsureRow(m, idx, col_count) ==
  IF Len(m) <= idx THEN EnsureRow(Append(m, BlankRow(col_count)), idx, col_count)
  ELSE m

\* set_cell on the grid under construction; st.fault records the IndexError
\* of matrix[r][c] = value when c is not a column of the row
SetCell(st, r, c, value) ==
  IF st.fault THEN st
  ELSE LET m == EnsureRow(st.m, r, st.col_count)
       IN  IF c >= st.col_count
           THEN [st EXCEPT !.m = m, !.fault = TRUE]
           ELSE [st EXCEPT !.m = [m EXCEPT ![r + 1][c + 1] = value]]

RECURSIVE SetCells(_, _)
\* a run of set_cell calls, in program order; each is <<r, c, value>>
SetCells(st, writes) ==
  IF writes = <<>> THEN st
  ELSE SetCells(SetCell(st, writes[1][1], writes[1][2], writes[1][3]), Tail(writes))

\* ------------------------------------------------------ return analytics
Zero == Norm(0, 0)

One == Norm(1, 0)

\* a * b on decimals
Mul(a, b) == Norm(a.m * b.m, a.e + b.e)

\* a - 1.0
MinusOne(a) == Norm(a.m - Pow10(a.e), a.e)

\* 1.0 + (r / 100.0)
GrowthFactor(r) == Norm(Pow10(r.e + 2) + r.m, r.e + 2)

RECURSIVE Product(_)
\* compounded = 1.0; for r in returns: compounded *= 1.0 + (r / 100.0)
Product(returns) ==
  IF returns = <<>> THEN One
  ELSE Mul(Product(SubSeq(returns, 1, Len(returns) - 1)),
           GrowthFactor(returns[Len(returns)]))

RECURSIVE IntPow(_, _)
IntPow(a, n) == IF n = 0 THEN One ELSE Mul(a, IntPow(a, n - 1))

\* math.pow(base, num / den) whose value is no whole number: the model keeps
\* the expression
Pow(base, num, den) == [tag |-> "pow", base |-> base, num |-> num, den |-> den]

PowAnnualOverSpan(compounded, months) == IntPow(compounded, 1)

\* math.pow(compounded, 12.0 / months): computed where the power is a whole
\* number (a factor of exactly 1, or a whole factor and a month count that
\* divides 12), kept as the expression otherwise; the factors of the grids
\* modelled stay far below the float range, where math.pow does not overflow
PowAnnual(compounded, months) ==
  CASE compounded = One -> One
    [] compounded # One /\ compounded.e = 0 /\ 12 % months = 0 ->
         IntPow(compounded, 12 \div months)
    [] OTHER -> Pow(compounded, 12, months)

\* (x - 1.0) * 100.0
RatePct(x) ==
  IF x.tag = "pow" THEN [tag |-> "num", pct_of |-> x, ndigits |-> None]
  ELSE Mul(MinusOne(x), Norm(100, 0))

\* round(value, 6) of a rate: whole numbers are their own rounding
Round6(value) ==
  IF "pct_of" \in DOMAIN value THEN [value EXCEPT !.ndigits = 6]
  ELSE value

\* an int value (a JSON field that may also be absent or of another type)
IntVal(n) == [tag |-> "int", v |-> n]

\* str(value) of a year field
StrOf(value) ==
  CASE value.tag = "str" -> value.s
    [] value.tag = "int" -> Digits(value.v)
    [] OTHER -> <<"N", "o", "n", "e">>

\* int(text): surrounding blanks allowed, digits only; None stands for the
\* ValueError
ParseInt(text) ==
  LET t == Strip(text)
  IN  IF t # <<>> /\ \A i \in 1..Len(t) : IsDigit(t[i])
      THEN IntVal(DigitsToInt(t))
      ELSE None

\* sorted(s, key=Key): stable, ascending (each element goes behind the last
\* one whose key is <= its own)
SortedBy(s, Key(_)) ==
  LET RECURSIVE Insert(_, _)
      Insert(t, x) ==
        IF t = <<>> THEN <<x>>
        ELSE IF Key(t[Len(t)]) <= Key(x) THEN Append(t, x)
        ELSE Append(Insert(SubSeq(t, 1, Len(t) - 1), x), t[Len(t)])
      RECURSIVE Sort(_)
      Sort(t) ==
        IF t = <<>> THEN <<>>
        ELSE Insert(Sort(SubSeq(t, 1, Len(t) - 1)), t[Len(t)])
  IN  Sort(s)

\* [r for r in rows]: the return_pct column of rows
Returns(rows) == [i \in 1..Len(rows) |-> rows[i].return_pct]

ComputeCagrFromHeatmapAnyProduct(heatmap) ==
  IF heatmap.tag # "dict" THEN None
  ELSE IF heatmap.values = <<>> THEN None
  ELSE
    LET numeric == SelectSeq(heatmap.values, LAMBDA row : IsNumber(row.return_pct))
        returns == Returns(numeric)
    IN  IF returns = <<>> THEN None
        ELSE RatePct(PowAnnual(Product(returns), Len(returns)))

\* compute_cagr_from_heatmap (exporter); a heatmap is None or [values |-> rows]
ComputeCagrFromHeatmap(heatmap) ==
  IF heatmap.tag # "dict" THEN None
  ELSE IF heatmap.values = <<>> THEN None
  ELSE
    LET numeric == SelectSeq(heatmap.values, LAMBDA row : IsNumber(row.return_pct))
        returns == Returns(numeric)
    IN  IF returns = <<>> THEN None
        ELSE LET compounded == Product(returns)
             IN  IF compounded.m <= 0 THEN None
                 ELSE RatePct(PowAnnual(compounded, Len(returns)))

\* the loop of the scraper's compute_cagr_from_heatmap: the (year, month,
\* return) points of the rows that have all three
ScrapePoints(raw_values) ==
  LET usable == SelectSeq(raw_values, LAMBDA row :
                  /\ row.month_index.tag = "int"
                  /\ IsNumber(row.return_pct)
                  /\ ParseInt(StrOf(row.year)).tag = "int")
  IN  [i \in 1..Len(usable) |->
         [year_int |-> ParseInt(StrOf(usable[i].year)).v,
          month_index |-> usable[i].month_index.v,
          return_pct |-> usable[i].return_pct]]

\* compute_cagr_from_heatmap (scraper)
ScrapeComputeCagrFromHeatmap(heatmap) ==
  IF heatmap.tag # "dict" THEN None
  ELSE IF heatmap.values = <<>> THEN None
  ELSE
    LET points == ScrapePoints(heatmap.values)
    IN  IF points = <<>> THEN None
        ELSE LET sorted == SortedBy(points,
                             LAMBDA p : p.year_int * 100 + p.month_index)
                 compounded == Product(Returns(sorted))
                 months_count == Len(sorted)
             IN  IF months_count <= 0 \/ compounded.m <= 0 THEN None
                 ELSE RatePct(PowAnnual(compounded, months_count))

\* the first loop of compute_yearly_returns_from_heatmap: the rows that enter
\* by_year, with their year as an int
YearlyPoints(values) ==
  LET usable == SelectSeq(values, LAMBDA row :
                  /\ ParseInt(StrOf(row.year)).tag = "int"
                  /\ row.month_index.tag = "int"
                  /\ IsNumber(row.return_pct))
  IN  [i \in 1..Len(usable) |->
         [year_int |-> ParseInt(StrOf(usable[i].year)).v,
          month_index |-> usable[i].month_index.v,
          return_pct |-> usable[i].return_pct]]

Descending(S) ==
  LET RECURSIVE Take(_)
      Take(T) ==
        IF T = {} THEN <<>>
        ELSE LET top == CHOOSE x \in T : \A y \in T : y <= x
             IN  <<top>> \o Take(T \ {top})
  IN  Take(S)

\* sorted(by_year): the keys in ascending order
Sorted(S) ==
  LET RECURSIVE Take(_)
      Take(T) ==
        IF T = {} THEN <<>>
        ELSE LET low == CHOOSE x \in T : \A y \in T : x <= y
             IN  <<low>> \o Take(T \ {low})
  IN  Take(S)

ByYearAllPoints(points, year) == points

\* by_year[year]: the points appended under the key year, in input order
ByYear(points, year) == SelectSeq(points, LAMBDA p : p.year_int = year)

\* compute_yearly_returns_from_heatmap
ComputeYearlyReturnsFromHeatmap(heatmap) ==
  IF heatmap.tag # "dict" THEN <<>>
  ELSE
    LET points == YearlyPoints(heatmap.values)
        keys   == Sorted({points[i].year_int : i \in 1..Len(points)})
    IN  [k \in 1..Len(keys) |->
           LET months == SortedBy(ByYear(points, keys[k]),
                                  LAMBDA p : p.month_index)
               compounded == Product(Returns(months))
           IN  Mul(MinusOne(compounded), Norm(100, 0))]

\* ----------------------------------------------------------------- dates
IsLeap(y) == (y % 4 = 0 /\ y % 100 # 0) \/ y % 400 = 0

DaysInMonth(y, m) ==
  CASE m \in {1, 3, 5, 7, 8, 10, 12} -> 31
    [] m \in {4, 6, 9, 11} -> 30
    [] OTHER -> IF IsLeap(y) THEN 29 ELSE 28

\* dt.date(year, month, day); None stands for its ValueError
Date(year, month, day) ==
  IF year \in 1..9999 /\ month \in 1..12 /\ day \in 1..DaysInMonth(year, month)
  THEN [tag |-> "date", year |-> year, month |-> month, day |-> day]
  ELSE None

RECURSIVE DaysBeforeMonth(_, _)
DaysBeforeMonth(y, m) ==
  IF m <= 1 THEN 0 ELSE DaysBeforeMonth(y, m - 1) + DaysInMonth(y, m - 1)

\* date.toordinal(): days since 31 December of year 0
ToOrdinal(d) ==
  LET y == d.year - 1
  IN  y * 365 + (y \div 4) - (y \div 100) + (y \div 400)
        + DaysBeforeMonth(d.year, d.month) + d.day

\* (end - start).days
DaysBetween(start, end) == ToOrdinal(end) - ToOrdinal(start)

YearsBetweenAfterOneDay(start_date, end_date) ==
  IF start_date.tag # "date" THEN None
  ELSE IF DaysBetween(start_date, end_date) <= 0 THEN None
  ELSE IntVal((DaysBetween(start_date, end_date) * 10000) \div 3652425)

\* years_between: int(days / 365.2425), the quotient taken on days * 10000
\* and 3652425 (the float quotient truncates to the same whole number for
\* every day count up to several thousand years)
YearsBetween(start_date, end_date) ==
  IF start_date.tag # "date" THEN None
  ELSE IF DaysBetween(start_date, end_date) < 0 THEN None
  ELSE IntVal((DaysBetween(start_date, end_date) * 10000) \div 3652425)

\* ------------------------------------------------------- French date text
\* accented letters of the texts, one character each
EAcute == "e_acute"

EAcuteUpper == "E_acute"

UCirc == "u_circ"

LowerLetters == <<"a", "b", "c", "d", "e", "f", "g", "h", "i", "j", "k", "l", "m",
                  "n", "o", "p", "q", "r", "s", "t", "u", "v", "w", "x", "y", "z">>

IsAsciiLetter(c) == \E l \in 1..26 : c = Letters[l] \/ c = LowerLetters[l]

\* [A-Za-zÀ-ſ]
IsLatinLetter(c) == IsAsciiLetter(c) \/ c \in {EAcute, EAcuteUpper, UCirc}

\* str.lower(), character by character
LowerChar(c) ==
  IF \E l \in 1..26 : c = Letters[l]
  THEN LowerLetters[CHOOSE l \in 1..26 : c = Letters[l]]
  ELSE IF c = EAcuteUpper THEN EAcute ELSE c

Lower(text) == [i \in 1..Len(text) |-> LowerChar(text[i])]

\* deaccent: NFKD decomposition, then the non-ASCII marks dropped
Deaccent(text) ==
  [i \in 1..Len(text) |->
     CASE text[i] = EAcute -> "e"
       [] text[i] = EAcuteUpper -> "E"
       [] text[i] = UCirc -> "u"
       [] OTHER -> text[i]]

\* index of the last character of the run of P characters that starts at i
\* (i - 1 when text[i] is not one)
RunEnd(text, i, P(_)) ==
  LET RECURSIVE Scan(_)
      Scan(j) == IF j <= Len(text) /\ P(text[j]) THEN Scan(j + 1) ELSE j - 1
  IN  Scan(i)

IsSpace(c) == c = " "

\* [\d\s.,]
IsAumNumberChar(c) == IsDigit(c) \/ c \in {" ", ".", ","}

\* float(number_raw) of digits and points: one point at most, None stands for
\* the ValueError
AumFloat(number_raw) ==
  LET points == {i \in 1..Len(number_raw) : number_raw[i] = "."}
  IN  IF Cardinality(points) > 1 THEN None
      ELSE IF points = {} THEN Norm(DigitsToInt(number_raw), 0)
      ELSE LET at == CHOOSE i \in points : TRUE
           IN  Norm(DigitsToInt(SubSeq(number_raw, 1, at - 1)
                                  \o SubSeq(number_raw, at + 1, Len(number_raw))),
                    Len(number_raw) - at)

\* lines 66-72: the number in million euros
AumScaled(number, unit) ==
  IF number = None THEN None
  ELSE IF unit \in {<<"m", "r", "d">>, <<"b", "n">>, <<"b">>, <<"m", "d">>}
       THEN Mul(number, Norm(1000, 0))
  ELSE IF unit \in {<<"k">>, <<"m", "i", "l", "l", "e">>}
       THEN Norm(number.m, number.e + 3)
  ELSE number

AumMatchCommaGrouping(text, s0, n1) ==
  AumScaled(AumFloat(RemoveChar(RemoveChar(SubSeq(text, s0, n1), " "), ",")),
            Lower(SubSeq(text, n1 + 1, RunEnd(text, n1 + 1, IsAsciiLetter))))

\* the match (\d[\d\s.,]*)\s*([A-Za-z]+)? that starts at s0 and whose number
\* ends at n1: blanks dropped, comma to point, float, unit scaling
AumMatch(text, s0, n1) ==
  AumScaled(AumFloat(ReplaceChar(RemoveChar(SubSeq(text, s0, n1), " "), ",", ".")),
            Lower(SubSeq(text, n1 + 1, RunEnd(text, n1 + 1, IsAsciiLetter))))

\* parse_aum_meur
ParseAumMeur(value) ==
  IF value.tag # "str" \/ value.s = <<>> THEN None
  ELSE LET text   == CleanSpaces(value.s)
           starts == {i \in 1..Len(text) : IsDigit(text[i])}
       IN  IF starts = {} THEN None
           ELSE LET s0 == CHOOSE i \in starts : \A j \in starts : i <= j
                IN  AumMatch(text, s0, RunEnd(text, s0, IsAumNumberChar))

NoMatch == [ok |-> FALSE, day |-> 0, token |-> <<>>, year |-> 0]

\* (\d{1,2})\s+(letters)\s+(\d{4}) from position i on with nd day digits,
\* given the ends s1, l1, s2 of the blanks, the letters and the blanks
TripleMatch(text, i, nd, s1, l1, s2) ==
  IF /\ i + nd - 1 <= Len(text)
     /\ \A j \in i..(i + nd - 1) : IsDigit(text[j])
     /\ s1 >= i + nd
     /\ l1 >= s1 + 1
     /\ s2 >= l1 + 1
     /\ s2 + 4 <= Len(text)
     /\ \A j \in (s2 + 1)..(s2 + 4) : IsDigit(text[j])
  THEN [ok |-> TRUE,
        day |-> DigitsToInt(SubSeq(text, i, i + nd - 1)),
        token |-> SubSeq(text, s1 + 1, l1),
        year |-> DigitsToInt(SubSeq(text, s2 + 1, s2 + 4))]
  ELSE NoMatch

\* ... the blanks behind the month
AfterMonth(text, i, nd, s1, l1) ==
  TripleMatch(text, i, nd, s1, l1, RunEnd(text, l1 + 1, IsSpace))

\* ... the letters of the month
AfterDay(text, i, nd, s1, IsLetter(_)) ==
  AfterMonth(text, i, nd, s1, RunEnd(text, s1 + 1, IsLetter))

\* ... the blanks behind the day
DateTripleWith(text, i, nd, IsLetter(_)) ==
  AfterDay(text, i, nd, RunEnd(text, i + nd, IsSpace), IsLetter)

\* \d{1,2} is greedy: the match with two day digits, else the one with one
Greedy(ms) == IF ms[2].ok THEN ms[2] ELSE ms[1]

\* the match of the triple at position i
DateTripleAt(text, i, IsLetter(_)) ==
  Greedy([nd \in 1..2 |-> DateTripleWith(text, i, nd, IsLetter)])

\* re.search: of the matches by start position, the leftmost
Leftmost(ms) ==
  IF \A i \in 1..Len(ms) : ~ms[i].ok THEN NoMatch
  ELSE ms[CHOOSE i \in 1..Len(ms) : ms[i].ok /\ \A j \in 1..(i - 1) : ~ms[j].ok]

\* dt.date(year, month, day) of a match whose month token is in the table
DateOfMonth(m, month) ==
  IF month = 0 THEN None ELSE Date(m.year, month, m.day)

\* dict.get(token) on a table of <<name, month>> pairs; 0 when absent
MonthOf(table, token) ==
  IF \E e \in table : e[1] = token
  THEN (CHOOSE e \in table : e[1] = token)[2]
  ELSE 0

FRENCH_MONTHS ==
  { <<<<"j", "a", "n", "v", "i", "e", "r">>, 1>>,
    <<<<"f", "e", "v", "r", "i", "e", "r">>, 2>>,
    <<<<"f", "e", "v", "r">>, 2>>,
    <<<<"m", "a", "r", "s">>, 3>>,
    <<<<"a", "v", "r", "i", "l">>, 4>>,
    <<<<"m", "a", "i">>, 5>>,
    <<<<"j", "u", "i", "n">>, 6>>,
    <<<<"j", "u", "i", "l", "l", "e", "t">>, 7>>,
    <<<<"a", "o", "u", "t">>, 8>>,
    <<<<"s", "e", "p", "t", "e", "m", "b", "r", "e">>, 9>>,
    <<<<"o", "c", "t", "o", "b", "r", "e">>, 10>>,
    <<<<"n", "o", "v", "e", "m", "b", "r", "e">>, 11>>,
    <<<<"d", "e", "c", "e", "m", "b", "r", "e">>, 12>> }

\* lanc[ee']\s+le\s+ from position i on, ignoring case, given the ends s1 and
\* s2 of the two runs of blanks: the position behind it (0: no match)
LaunchPhraseEnd(text, i, s1, s2) ==
  IF /\ i + 4 <= Len(text)
     /\ Lower(SubSeq(text, i, i + 3)) = <<"l", "a", "n", "c">>
     /\ LowerChar(text[i + 4]) \in {"e", EAcute}
     /\ s1 >= i + 5
     /\ s1 + 2 <= Len(text)
     /\ Lower(SubSeq(text, s1 + 1, s1 + 2)) = <<"l", "e">>
     /\ s2 >= s1 + 3
  THEN s2 + 1
  ELSE 0

AfterLaunchWord(text, i, s1) ==
  LaunchPhraseEnd(text, i, s1, RunEnd(text, s1 + 3, IsSpace))

LaunchPhraseAt(text, i) == AfterLaunchWord(text, i, RunEnd(text, i + 5, IsSpace))

\* the date triple right behind the phrase
TripleBehind(text, j) ==
  IF j = 0 THEN NoMatch ELSE DateTripleAt(text, j, IsLatinLetter)

\* the first match of the whole pattern in text
LaunchSentence(text) ==
  Leftmost([i \in 1..Len(text) |-> TripleBehind(text, LaunchPhraseAt(text, i))])

\* lines 93-105: the month looked up lower-cased and without accents
FrenchMonthDate(m) ==
  IF ~m.ok THEN None
  ELSE DateOfMonth(m, MonthOf(FRENCH_MONTHS,
                              RemoveChar(Deaccent(Lower(m.token)), ".")))

\* extract_launch_date_from_description
ExtractLaunchDateFromDescription(description) ==
  IF description.tag # "str" \/ description.s = <<>> THEN None
  ELSE FrenchMonthDate(LaunchSentence(CleanSpaces(description.s)))

\* infer_launch_date_from_heatmap
InferLaunchDateFromHeatmap(heatmap) ==
  IF heatmap.tag # "dict" THEN None
  ELSE IF heatmap.values = <<>> THEN None
  ELSE
    LET usable == SelectSeq(heatmap.values, LAMBDA row :
                    /\ ParseInt(StrOf(row.year)).tag = "int"
                    /\ row.month_index.tag = "int"
                    /\ row.month_index.v >= 1
                    /\ row.month_index.v <= 12)
        points == [i \in 1..Len(usable) |->
                     [year_int |-> ParseInt(StrOf(usable[i].year)).v,
                      month_index |-> usable[i].month_index.v]]
    IN  IF points = <<>> THEN None
        ELSE LET first == SortedBy(points,
                            LAMBDA p : p.year_int * 100 + p.month_index)[1]
             IN  Date(first.year_int, first.month_index, 1)

ClassifyCategoryHedgeFirst(name, axis) ==
  LET text == Lower((IF name.tag = "str" THEN name.s ELSE <<>>) \o <<" ">>
                      \o (IF axis.tag = "str" THEN axis.s ELSE <<>>))
      Contains(sub) == \E i \in 1..(Len(text) - Len(sub) + 1) :
                         SubSeq(text, i, i + Len(sub) - 1) = sub
  IN  IF Contains(<<"h", "e", "d", "g">>) THEN "Hedge"
      ELSE IF Contains(<<"c", "o", "r", "e">>) THEN "Core"
      ELSE "Satellite"

\* classify_category
ClassifyCategory(name, axis) ==
  LET text == Lower((IF name.tag = "str" THEN name.s ELSE <<>>) \o <<" ">>
                      \o (IF axis.tag = "str" THEN axis.s ELSE <<>>))
      Contains(sub) == \E i \in 1..(Len(text) - Len(sub) + 1) :
                         SubSeq(text, i, i + Len(sub) - 1) = sub
  IN  IF Contains(<<"c", "o", "r", "e">>) THEN "Core"
      ELSE IF Contains(<<"h", "e", "d", "g">>) THEN "Hedge"
      ELSE "Satellite"

\* ---------------------------------------------------- scraper: parsing
\* clean_text
CleanText(value) == Strip(CollapseSpaces(ReplaceChar(value, NBSP, " ")))

\* float(match.group(0)) of the sign, the integer digits and the fraction
\* digits of a match
FloatOf(neg, ip, fp) ==
  Norm((IF neg THEN -1 ELSE 1) * DigitsToInt(ip \o fp), Len(fp))

\* \d+(?:\.\d+)? from d0 on, given the end d1 of the integer digits
NumberWithInt(text, neg, d0, d1) ==
  IF d1 + 2 <= Len(text) /\ text[d1 + 1] = "." /\ IsDigit(text[d1 + 2])
  THEN FloatOf(neg, SubSeq(text, d0, d1),
               SubSeq(text, d1 + 2, DigitRunEnd(text, d1 + 2)))
  ELSE FloatOf(neg, SubSeq(text, d0, d1), <<>>)

NumberFrom(text, neg, d0) == NumberWithInt(text, neg, d0, DigitRunEnd(text, d0))

\* the match of -?\d+(?:\.\d+)? that starts at s0
NumberAt(text, s0) ==
  NumberFrom(text, text[s0] = "-", IF text[s0] = "-" THEN s0 + 1 ELSE s0)

\* re.search(r"-?\d+(?:\.\d+)?", text): the match at the leftmost start
FirstNumber(text, starts) ==
  IF starts = {} THEN None
  ELSE NumberAt(text, CHOOSE i \in starts : \A j \in starts : i <= j)

\* the positions where a match can start
NumberStarts(text) ==
  {i \in 1..Len(text) :
     \/ IsDigit(text[i])
     \/ text[i] = "-" /\ i < Len(text) /\ IsDigit(text[i + 1])}

\* the match in text
SearchNumber(text) == FirstNumber(text, NumberStarts(text))

\* parse_percent_text: blanks, "%" and "+" removed, "," made ".", then the
\* first match of -?\d+(?:\.\d+)?
ParsePercentText(value) ==
  IF value.tag # "str" \/ value.s = <<>> THEN None
  ELSE SearchNumber(ReplaceChar(RemoveChar(RemoveChar(RemoveChar(RemoveChar(
                      value.s, NBSP), " "), "%"), "+"), ",", "."))

MONTH_INDEX ==
  { <<<<"j", "a", "n">>, 1>>,
    <<<<"j", "a", "n", "v">>, 1>>,
    <<<<"j", "a", "n", "v", "i", "e", "r">>, 1>>,
    <<<<"f", "e", "b">>, 2>>,
    <<<<"f", "e", "v">>, 2>>,
    <<<<"f", "e", "v", "r">>, 2>>,
    <<<<"f", "e", "v", "r", "i", "e", "r">>, 2>>,
    <<<<"f", "v", "r", "i", "e", "r">>, 2>>,
    <<<<"m", "a", "r">>, 3>>,
    <<<<"m", "a", "r", "s">>, 3>>,
    <<<<"a", "v", "r">>, 4>>,
    <<<<"a", "v", "r", "i", "l">>, 4>>,
    <<<<"m", "a", "i">>, 5>>,
    <<<<"j", "u", "n">>, 6>>,
    <<<<"j", "u", "i", "n">>, 6>>,
    <<<<"j", "u", "l">>, 7>>,
    <<<<"j", "u", "i", "l">>, 7>>,
    <<<<"j", "u", "i", "l", "l", "e", "t">>, 7>>,
    <<<<"a", "o", "u">>, 8>>,
    <<<<"a", "o", "u", "t">>, 8>>,
    <<<<"a", "u", "g">>, 8>>,
    <<<<"s", "e", "p">>, 9>>,
    <<<<"s", "e", "p", "t">>, 9>>,
    <<<<"s", "e", "p", "t", "e", "m", "b", "r", "e">>, 9>>,
    <<<<"o", "c", "t">>, 10>>,
    <<<<"o", "c", "t", "o", "b", "r", "e">>, 10>>,
    <<<<"n", "o", "v">>, 11>>,
    <<<<"n", "o", "v", "e", "m", "b", "r", "e">>, 11>>,
    <<<<"d", "e", "c">>, 12>>,
    <<<<"d", "e", "c", "e", "m", "b", "r", "e">>, 12>>,
    <<<<"d", "c", "e", "m", "b", "r", "e">>, 12>> }

\* the first match of (\d{1,2})\s+([a-zA-Z]+)\s+(\d{4}) in text
FirstDateTriple(text) ==
  Leftmost([i \in 1..Len(text) |-> DateTripleAt(text, i, IsAsciiLetter)])

\* lines 96-117: the month looked up with its accents replaced
MonthIndexDate(m) ==
  IF ~m.ok THEN None
  ELSE DateOfMonth(m, MonthOf(MONTH_INDEX, Deaccent(m.token)))

\* parse_french_date, on the cleaned and lower-cased text
ParseFrenchDate(value) ==
  IF value.tag # "str" \/ value.s = <<>> THEN None
  ELSE MonthIndexDate(FirstDateTriple(Lower(CleanText(value.s))))

\* ------------------------------------------------- scraper: fallback CAGR
\* an exception leaving a function
Raised(exc) == [tag |-> "raise", exc |-> exc]

\* number of digits of a positive integer
DigitCount(n) == Len(Digits(n))

\* math.pow(total_growth, 365.2425 / days) leaves the float range (about
\* 1.8 * 10^308) and raises OverflowError.  Decided on the whole part w of the
\* factor, w <= total_growth < w + 1, through the digit counts of the cubes:
\* 10^lo <= w^3 and (w + 1)^3 <= 10^hi, so log10 of the factor lies in
\* [lo / 3, hi / 3].  Overflow is certain when (lo / 3) * 365.2425 / days >= 309
\* and excluded when the factor is below 1 or (hi / 3) * 365.2425 / days < 308
PowOverflows(total_growth, days) ==
  LET w  == total_growth.m \div Pow10(total_growth.e)
      lo == DigitCount(w * w * w) - 1
      hi == DigitCount((w + 1) * (w + 1) * (w + 1) - 1)
  IN  CASE w = 0 -> FALSE
        [] w > 0 /\ lo * 146097 >= 309 * 1200 * days -> TRUE
        [] w > 0 /\ hi * 146097 < 308 * 1200 * days -> FALSE

\* lines 484-487: absent for a factor <= 0, else
\* (math.pow(total_growth, 1.0 / years) - 1.0) * 100.0, years = days / 365.2425
CagrFromGrowth(total_growth, days) ==
  IF total_growth.m <= 0 THEN None
  ELSE IF total_growth = One THEN Zero
  ELSE IF PowOverflows(total_growth, days) THEN Raised("OverflowError")
  ELSE RatePct(Pow(total_growth, 3652425, days * 10000))

\* lines 477-487: the rate over the days since the launch
CagrOverDays(max_return_pct, days) ==
  IF days <= 0 THEN None
  ELSE CagrFromGrowth(GrowthFactor(max_return_pct), days)

\* lines 474-478
CagrSinceLaunch(max_return_pct, launch_date, today) ==
  IF max_return_pct = None \/ launch_date = None THEN None
  ELSE CagrOverDays(max_return_pct, DaysBetween(launch_date, today))

\* lines 472-473 on the meta dict
CagrFromMeta(meta, today) ==
  CagrSinceLaunch(ParsePercentText(meta.max_return_text),
                  ParseFrenchDate(meta.launch_date_text), today)

\* compute_cagr_from_max_return, with dt.date.today() as a parameter
ComputeCagrFromMaxReturn(parsed, today) ==
  IF parsed._meta_returns.tag # "dict" THEN None
  ELSE CagrFromMeta(parsed._meta_returns, today)

\* ------------------------------------------------------------ normalizer
\* str(data.get("isin", "")).strip().upper() on the ISIN texts of the model
UpperIsin(isin) ==
  CASE isin = "ie00a" -> "IE00A"
    [] OTHER -> isin

\* a < b on decimals
Less(a, b) == a.m * Pow10(b.e) < b.m * Pow10(a.e)

\* launch_date.strftime("%d/%m/%Y")
StrfDate(d) ==
  PadDigits(d.day, 2) \o <<"/">> \o PadDigits(d.month, 2) \o <<"/">>
    \o Digits(d.year)

LaunchDateGridFirst(data) ==
  LET inferred == InferLaunchDateFromHeatmap(data.heatmap)
  IN  IF inferred = None
      THEN ExtractLaunchDateFromDescription(data.description)
      ELSE inferred

\* lines 290-292: the date of the description, else the one of the grid
LaunchDate(data) ==
  LET launch_date == ExtractLaunchDateFromDescription(data.description)
  IN  IF launch_date = None
      THEN InferLaunchDateFromHeatmap(data.heatmap)
      ELSE launch_date

NegYearsNotPositive(yearly_returns) ==
  Cardinality({i \in 1..Len(yearly_returns) : yearly_returns[i].m <= 0})

\* sum(1 for r in yearly_returns if r < 0)
NegYears(yearly_returns) ==
  Cardinality({i \in 1..Len(yearly_returns) : yearly_returns[i].m < 0})

\* min(yearly_returns) if yearly_returns else None
WorstYear(yearly_returns) ==
  IF yearly_returns = <<>> THEN None
  ELSE LET RECURSIVE Min(_)
           Min(i) == IF i = 1 THEN yearly_returns[1]
                     ELSE IF Less(yearly_returns[i], Min(i - 1))
                          THEN yearly_returns[i]
                          ELSE Min(i - 1)
       IN  Min(Len(yearly_returns))

\* one iteration of the loop of build_overview_rows: the row of a document,
\* or nothing when the document has no ISIN
OverviewRow(data) ==
  LET isin == UpperIsin(data.isin)
      ter  == ParsePercent(data.ter_text)
      cagr == IF IsNumber(data.cagr) THEN data.cagr
              ELSE ComputeCagrFromHeatmap(data.heatmap)
      launch_date == LaunchDate(data)
      yearly_returns == ComputeYearlyReturnsFromHeatmap(data.heatmap)
      neg_years  == NegYears(yearly_returns)
      worst_year == WorstYear(yearly_returns)
  IN  IF isin = "" THEN <<>>
      ELSE <<[ISIN |-> isin, Nom |-> data.nom, TER |-> ter, CAGR |-> cagr,
              Date_lancement |-> IF launch_date = None THEN <<>>
                                 ELSE StrfDate(launch_date),
              Nb_annees_negatives |-> IF yearly_returns # <<>>
                                      THEN IntVal(neg_years) ELSE Text(<<>>),
              Pire_annee |-> worst_year]>>

RECURSIVE BuildOverviewRows(_)
\* build_overview_rows: rows in file order, documents without ISIN skipped
BuildOverviewRows(docs) ==
  IF docs = <<>> THEN <<>>
  ELSE OverviewRow(docs[1]) \o BuildOverviewRows(Tail(docs))

\* write_overview_csv: the data lines (ISIN, name, TER and CAGR columns)
OverviewLines(rs) ==
  [i \in 1..Len(rs) |->
     [ISIN |-> rs[i].ISIN, Nom |-> rs[i].Nom,
      TER  |-> FmtNumber(rs[i].TER, 4),
      CAGR |-> FmtNumber(rs[i].CAGR, 6)]]

\* ----------------------------------------------- projection sheet layout
ProjectionHeader == 12

\* col_count = 1 + len(etfs)
ColCount(etfs) == 1 + Len(etfs)

PlaceholderRowsWithParameters ==
  << <<TextCell("Aucun ETF exploitable")>>,
     <<TextCell("Capital initial"), <<Lit("="), Ref(<<"B">>, 2, TRUE, TRUE)>> >> >>

\* writer.writerow(["Aucun ETF exploitable"]): the file of an empty instrument list
PlaceholderRows == << <<TextCell("Aucun ETF exploitable")>> >>

\* parameters block and the labels of the rate block
ParameterBlock(years_, capital, infl, dca) ==
  << <<0, 0, TextCell("Parametre")>>,
     <<0, 1, TextCell("Valeur")>>,
     <<1, 0, TextCell("Capital initial")>>,
     <<1, 1, Chars(FmtNumber(capital, 2))>>,
     <<2, 0, TextCell("Inflation annuelle")>>,
     <<2, 1, Chars(FmtNumber(infl, 6))>>,
     <<3, 0, TextCell("DCA mensuel")>>,
     <<3, 1, Chars(FmtNumber(dca, 2))>>,
     <<4, 0, TextCell("Horizon (annees)")>>,
     <<4, 1, Chars(Str(years_))>>,
     <<6, 0, TextCell("ETF")>>,
     <<7, 0, TextCell("ISIN")>>,
     <<8, 0, TextCell("CAGR brut annuel")>>,
     <<9, 0, TextCell("TER annuel")>>,
     <<10, 0, TextCell("Rendement net reel annuel")>> >>

\* row.get(key) if it is a number else 0.0
NumberOrZero(v) == IF IsNumber(v) THEN v ELSE Zero

\* f"={fmt_number(float(pct) / 100.0, 10)}"
RateFormula(pct) == <<Lit("=")>> \o Chars(FmtNumber(Div100(NumberOrZero(pct)), 10))

NetRateFormulaSwapped(col) ==
  <<Lit("="), Lit("(1+"), Ref(col, 10, FALSE, FALSE), Lit(")*(1-"),
    Ref(col, 9, FALSE, FALSE), Lit(")/(1+"), Ref(<<"B">>, 3, TRUE, TRUE), Lit(")-1")>>

\* f"=(1+{col}9)*(1-{col}10)/(1+$B$3)-1"
NetRateFormula(col) ==
  <<Lit("="), Lit("(1+"), Ref(col, 9, FALSE, FALSE), Lit(")*(1-"),
    Ref(col, 10, FALSE, FALSE), Lit(")/(1+"), Ref(<<"B">>, 3, TRUE, TRUE), Lit(")-1")>>

\* one iteration of the rate-block loop, idx = 2, 3, ...
RateColumn(idx, row) ==
  LET col == ExcelColName(idx)
  IN  << <<6, idx - 1, TextCell(row.Nom)>>,
         <<7, idx - 1, TextCell(row.ISIN)>>,
         <<8, idx - 1, RateFormula(row.CAGR)>>,
         <<9, idx - 1, RateFormula(row.TER)>>,
         <<10, idx - 1, NetRateFormula(col)>> >>

\* header row of a growth block: label, then the ISIN of every instrument
HeaderRow(r, label, etfs) ==
  << <<r, 0, TextCell(label)>> >>
    \o [i \in 1..Len(etfs) |-> <<r, i, TextCell(etfs[i].ISIN)>>]

NetGrowthFormulaSameRow(col, prev_r) ==
  <<Lit("="), Ref(col, prev_r + 2, FALSE, FALSE), Lit("*(1+"),
    Ref(col, 11, FALSE, TRUE), Lit(")+"), Ref(<<"B">>, 4, TRUE, TRUE), Lit("*12")>>

\* f"={col}{prev_r + 1}*(1+{col}$11)+$B$4*12"
NetGrowthFormula(col, prev_r) ==
  <<Lit("="), Ref(col, prev_r + 1, FALSE, FALSE), Lit("*(1+"),
    Ref(col, 11, FALSE, TRUE), Lit(")+"), Ref(<<"B">>, 4, TRUE, TRUE), Lit("*12")>>

NoCostGrowthFormulaNetRate(col, prev_r) ==
  <<Lit("="), Ref(col, prev_r + 1, FALSE, FALSE), Lit("*(1+"),
    Ref(col, 11, FALSE, TRUE), Lit(")+"), Ref(<<"B">>, 4, TRUE, TRUE), Lit("*12")>>

\* f"={col}{prev_r + 1}*(1+{col}$9)+$B$4*12"
NoCostGrowthFormula(col, prev_r) ==
  <<Lit("="), Ref(col, prev_r + 1, FALSE, FALSE), Lit("*(1+"),
    Ref(col, 9, FALSE, TRUE), Lit(")+"), Ref(<<"B">>, 4, TRUE, TRUE), Lit("*12")>>

YearZeroCellLiteral(capital) == Chars(FmtNumber(capital, 2))

\* the year-0 cell of a growth block: "=$B$2"
YearZeroCell(capital) == <<Lit("="), Ref(<<"B">>, 2, TRUE, TRUE)>>

\* one iteration over y of the fee-adjusted growth loop
NetGrowthRow(start, y, n, capital) ==
  LET r == start + y
  IN  << <<r, 0, Chars(Str(y))>> >>
        \o [i \in 1..n |->
              <<r, i, IF y = 0 THEN YearZeroCell(capital)
                      ELSE NetGrowthFormula(ExcelColName(i + 1), r - 1)>>]

\* one iteration over y of the fee-free growth loop
NoCostGrowthRow(start, y, n, capital) ==
  LET r == start + y
  IN  << <<r, 0, Chars(Str(y))>> >>
        \o [i \in 1..n |->
              <<r, i, IF y = 0 THEN YearZeroCell(capital)
                      ELSE NoCostGrowthFormula(ExcelColName(i + 1), r - 1)>>]

StartDataRow == ProjectionHeader + 1

NetFinalRow(years_) == StartDataRow + years_

NoCostHeaderRowOnFinalRow(years_) == NetFinalRow(years_)

\* no_cost_header = net_final_row + 3
NoCostHeaderRow(years_) == NetFinalRow(years_) + 3

NoCostStart(years_) == NoCostHeaderRow(years_) + 1

NoCostFinalRow(years_) == NoCostStart(years_) + years_

SummaryHeaderRow(years_) == NoCostFinalRow(years_) + 3

SummaryHeader(r) ==
  << <<r, 0, TextCell("ISIN")>>,
     <<r, 1, TextCell("Nom ETF")>>,
     <<r, 2, TextCell("Capital final net reel")>>,
     <<r, 3, TextCell("Capital final sans frais")>>,
     <<r, 4, TextCell("Manque a gagner")>>,
     <<r, 5, TextCell("Manque a gagner %")>> >>

\* one iteration of the summary loop, i = 1, 2, ...
SummaryRow(i, row, years_) ==
  LET r   == SummaryHeaderRow(years_) + i
      col == ExcelColName(i + 1)
  IN  << <<r, 0, TextCell(row.ISIN)>>,
         <<r, 1, TextCell(row.Nom)>>,
         <<r, 2, <<Lit("="), Ref(col, NetFinalRow(years_) + 1, FALSE, FALSE)>> >>,
         <<r, 3, <<Lit("="), Ref(col, NoCostFinalRow(years_) + 1, FALSE, FALSE)>> >>,
         <<r, 4, <<Lit("="), Ref(<<"D">>, r + 1, FALSE, FALSE), Lit("-"),
                   Ref(<<"C">>, r + 1, FALSE, FALSE)>> >>,
         <<r, 5, <<Lit("="), Ref(<<"E">>, r + 1, FALSE, FALSE), Lit("/"),
                   Ref(<<"D">>, r + 1, FALSE, FALSE)>> >> >>

RECURSIVE Flatten(_)
\* the set_cell calls of consecutive loop iterations, in program order
Flatten(runs) == IF runs = <<>> THEN <<>> ELSE runs[1] \o Flatten(Tail(runs))

\* for idx, row in enumerate(etfs, start=2): the rate block
RateBlock(etfs) == Flatten([i \in 1..Len(etfs) |-> RateColumn(i + 1, etfs[i])])

\* header and rows of the fee-adjusted growth block
NetGrowthBlock(etfs, years_, capital) ==
  HeaderRow(ProjectionHeader, "Annee", etfs)
    \o Flatten([j \in 1..(years_ + 1) |->
                  NetGrowthRow(StartDataRow, j - 1, Len(etfs), capital)])

\* header and rows of the fee-free growth block
NoCostGrowthBlock(etfs, years_, capital) ==
  HeaderRow(NoCostHeaderRow(years_), "Annee (sans frais)", etfs)
    \o Flatten([j \in 1..(years_ + 1) |->
                  NoCostGrowthRow(NoCostStart(years_), j - 1, Len(etfs), capital)])

\* header and rows of the summary block
SummaryBlock(etfs, years_) ==
  SummaryHeader(SummaryHeaderRow(years_))
    \o Flatten([i \in 1..Len(etfs) |-> SummaryRow(i, etfs[i], years_)])

\* ------------------------------------------------------------------ state
VARIABLES
  files,            \* the JSON documents of the input directory, in path order
  years,            \* projection horizon, max(1, int(args.years))
  capital_initial,  \* run parameters
  inflation,
  dca_mensuel,
  rows,             \* result of build_overview_rows
  overview,         \* data lines of the overview CSV
  pc,               \* position of main / write_projection_csv
  matrix,           \* the grid under construction
  col_count,        \* width of the rows of the grid
  fault,            \* an IndexError left write_projection_csv at position pc
  out,              \* rows of the projection CSV file (<<>>: not written)
  colIn,            \* argument of excel_col_name
  colOut,           \* its result (<<>>: not called)
  call,             \* a function of the analytics and its arguments
  ret,              \* what the call returned (None before it returns)
  site,             \* scraper: what the site answers for each ISIN, in order
  today,            \* scraper: dt.date.today()
  idx,              \* scraper: position of the loop of main in the ISINs
  parsed,           \* scraper: the document of the current ISIN
  documents,        \* scraper: the {isin}.json files written, by ISIN
  errors,           \* scraper: the errors dict of main
  exit_status,      \* scraper: return value of main (None while running)
  attempt,          \* fetch_heatmap_data: the loop variable of the timer loop
  requests,         \* fetch_heatmap_data: the requests sent, with their answers
  active,           \* DataTestIdTextParser: the open captures
  results,          \* DataTestIdTextParser: texts recorded for each target id
  fed               \* DataTestIdTextParser: the events handled so far

vars == <<files, years, capital_initial, inflation, dca_mensuel, rows, overview,
          pc, matrix, col_count, fault, out, colIn, colOut, call, ret,
          site, today, idx, parsed, documents, errors, exit_status,
          attempt, requests, active, results, fed>>

\* no analytics call in this run
NoCall == call = None /\ ret = None

\* no scraper in this run
NoScrape ==
  /\ site = <<>>
  /\ today = None
  /\ idx = 0
  /\ parsed = None
  /\ documents = <<>>
  /\ errors = <<>>
  /\ exit_status = None

\* no heatmap retrieval in this run
NoPoll == attempt = 0 /\ requests = <<>>

\* no parser in this run
NoParse == active = <<>> /\ results = <<>> /\ fed = <<>>

\* no export in this run
NoExport ==
  /\ files = <<>>
  /\ years = 1
  /\ capital_initial = Zero
  /\ inflation = Zero
  /\ dca_mensuel = Zero
  /\ rows = <<>>
  /\ overview = <<>>
  /\ matrix = <<>>
  /\ col_count = 0
  /\ fault = FALSE
  /\ out = <<>>
  /\ colIn = 0
  /\ colOut = <<>>

inputs == <<files, years, capital_initial, inflation, dca_mensuel>>

colVars == <<colIn, colOut>>

fnVars == <<call, ret>>

scrapeVars == <<site, today, idx, parsed, documents, errors, exit_status>>

pollVars == <<attempt, requests>>

parserVars == <<active, results, fed>>

\* ----------------------------------------------------------------- inputs
\* ter as the site prints it: "0,20%"
TerComma == <<"0", ",", "2", "0", "%">>

\* "0.07% p.a."
TerPerAnnum == <<"0", ".", "0", "7", "%", " ", "p", ".", "a", ".">>

ZeroMonth(m) ==
  [year |-> Text(<<"2", "0", "2", "3">>), month_index |-> IntVal(m),
   return_pct |-> Zero]

\* a full year of months that each returned 0 %
FlatYear == [tag |-> "dict", values |-> [m \in 1..12 |-> ZeroMonth(m)]]

EmptyGrid == [tag |-> "dict", values |-> <<>>]

\* the documents of instruments whose CAGR the exporter derives itself: from
\* a grid that measures 0 %, and from a grid without any point
DocKinds ==
  { [isin |-> "ie00a", nom |-> "World Core", description |-> None, cagr |-> None,
     heatmap |-> FlatYear, ter_text |-> Text(TerComma)],
    [isin |-> "LU00B", nom |-> "World Acc", description |-> None, cagr |-> None,
     heatmap |-> EmptyGrid, ter_text |-> None] }

\* a document in which the scraper recorded cagr_depuis_creation_pct
ScrapedCagrDoc ==
  [isin |-> "FR00C", nom |-> "Bond Hedged", description |-> None, cagr |-> Norm(75, 1),
   heatmap |-> None, ter_text |-> Text(TerPerAnnum)]

\* a JSON file of the directory that is no instrument document (no isin)
NoIsinDoc ==
  [isin |-> "", nom |-> "", description |-> None, cagr |-> None, heatmap |-> None, ter_text |-> None]

RECURSIVE SeqsUpTo(_, _)
\* the sequences over S of length 0..n
SeqsUpTo(S, n) ==
  IF n = 0 THEN {<<>>}
  ELSE LET shorter == SeqsUpTo(S, n - 1)
       IN  shorter \cup {Append(q, x) : q \in {t \in shorter : Len(t) = n - 1}, x \in S}

\* the directories: optional first files (one or two without ISIN, or one with
\* a scraped CAGR), then up to MaxFiles documents of DocKinds in any order
Directories ==
  {first \o docs : first \in {<<>>, <<NoIsinDoc>>, <<NoIsinDoc, NoIsinDoc>>,
                                <<ScrapedCagrDoc>>},
                   docs \in SeqsUpTo(DocKinds, MaxFiles)} \ {<<>>}

\* ------------------------------------------- inputs of the analytics calls
Row(year, month_index, return_pct) ==
  [year |-> year, month_index |-> month_index, return_pct |-> return_pct]

Year2019 == Text(<<"2", "0", "1", "9">>)

Year2020 == Text(<<"2", "0", "2", "0">>)

Year2021 == Text(<<"2", "0", "2", "1">>)

\* a year label that is no number: "n/a"
YearNA == Text(<<"n", "/", "a">>)

\* the rows a grid is made of: gains, losses, a total loss, a return below
\* -100 %, a flat month, and rows whose year, month or return is unusable
GridRows ==
  { Row(Year2021, IntVal(1), Norm(100, 0)),
    Row(Year2021, IntVal(2), Norm(-50, 0)),
    Row(Year2021, IntVal(12), Zero),
    Row(Year2020, IntVal(12), Norm(100, 0)),
    Row(Year2020, IntVal(11), Norm(-100, 0)),
    Row(Year2020, IntVal(2), Norm(-200, 0)),
    Row(YearNA, IntVal(1), Norm(100, 0)),
    Row(Year2020, None, Zero),
    Row(Year2019, IntVal(13), Norm(100, 0)),
    Row(Year2019, IntVal(5), None) }

Grid(values) == [tag |-> "dict", values |-> values]

\* heatmap_mensuelle of a document: null, a grid of up to MaxPoints rows in
\* any order, or a full flat year
Heatmaps ==
  {None, FlatYear} \cup {Grid(values) : values \in SeqsUpTo(GridRows, MaxPoints)}

\* "ETF lancé le 12 mars 2020 en Irlande"
DescMars2020 ==
  Text(<<"E", "T", "F", " ", "l", "a", "n", "c", EAcute, " ", "l", "e", " ",
       "1", "2", " ", "m", "a", "r", "s", " ", "2", "0", "2", "0", " ", "e",
       "n", " ", "I", "r", "l", "a", "n", "d", "e">>)

\* "Lancé  le 1 février 2021"
DescFevrier2021 ==
  Text(<<"L", "a", "n", "c", EAcute, " ", " ", "l", "e", " ", "1", " ", "f",
       EAcute, "v", "r", "i", "e", "r", " ", "2", "0", "2", "1">>)

\* "fonds lance le 31 juin 2019"
DescJuin31 ==
  Text(<<"f", "o", "n", "d", "s", " ", "l", "a", "n", "c", "e", " ", "l",
       "e", " ", "3", "1", " ", "j", "u", "i", "n", " ", "2", "0", "1",
       "9">>)

\* "lancée le 3 mai 2020"
DescFeminine ==
  Text(<<"l", "a", "n", "c", EAcute, "e", " ", "l", "e", " ", "3", " ", "m",
       "a", "i", " ", "2", "0", "2", "0">>)

\* "Fonds indiciel 2020"
DescNoSentence ==
  Text(<<"F", "o", "n", "d", "s", " ", "i", "n", "d", "i", "c", "i", "e",
       "l", " ", "2", "0", "2", "0">>)

Descriptions ==
  {None, DescMars2020, DescFevrier2021, DescJuin31, DescFeminine, DescNoSentence}

\* the documents of the normalizer calls: an instrument with a description
\* and a grid (every grid under a description without launch sentence, the
\* grids of fewer than MaxPoints rows under every description)
Documents ==
  { [isin |-> "ie00a", nom |-> "World Core", description |-> c[1],
     cagr |-> None, heatmap |-> c[2], ter_text |-> None] :
    c \in ({DescNoSentence} \X Heatmaps)
           \cup (Descriptions
                  \X ({None, FlatYear}
                        \cup {Grid(values) :
                                values \in SeqsUpTo(GridRows, MaxPoints - 1)})) }

\* "MSCI World Core UCITS ETF"
NameWorldCore ==
  Text(<<"M", "S", "C", "I", " ", "W", "o", "r", "l", "d", " ", "C", "o",
       "r", "e", " ", "U", "C", "I", "T", "S", " ", "E", "T", "F">>)

\* "Euro Bond Hedged"
NameBondHedged ==
  Text(<<"E", "u", "r", "o", " ", "B", "o", "n", "d", " ", "H", "e", "d",
       "g", "e", "d">>)

\* "Hedged CORE"
NameCoreHedged ==
  Text(<<"H", "e", "d", "g", "e", "d", " ", "C", "O", "R", "E">>)

\* "Highscore"
NameScore ==
  Text(<<"H", "i", "g", "h", "s", "c", "o", "r", "e">>)

\* "Physical Gold"
NameGold ==
  Text(<<"P", "h", "y", "s", "i", "c", "a", "l", " ", "G", "o", "l", "d">>)

\* "Global Co"
NameCo ==
  Text(<<"G", "l", "o", "b", "a", "l", " ", "C", "o">>)

\* "Actions"
AxisActions ==
  Text(<<"A", "c", "t", "i", "o", "n", "s">>)

\* "Obligations, hedgé"
AxisHedged ==
  Text(<<"O", "b", "l", "i", "g", "a", "t", "i", "o", "n", "s", ",", " ",
       "h", "e", "d", "g", EAcute>>)

\* "Core"
AxisCore ==
  Text(<<"C", "o", "r", "e">>)

\* "Re"
AxisRe ==
  Text(<<"R", "e">>)

Names ==
  {None, Text(<<>>), NameWorldCore, NameBondHedged, NameCoreHedged, NameScore,
   NameGold, NameCo}

Axes == {None, Text(<<>>), AxisActions, AxisHedged, AxisCore, AxisRe}

\* "+100,00%"
MaxReturnDouble ==
  Text(<<"+", "1", "0", "0", ",", "0", "0", "%">>)

\* "+1<nbsp>000,00 %"
MaxReturnTenfold ==
  Text(<<"+", "1", NBSP, "0", "0", "0", ",", "0", "0", " ", "%">>)

\* "0,00%"
MaxReturnFlat ==
  Text(<<"0", ",", "0", "0", "%">>)

\* "-12,5%"
MaxReturnLoss ==
  Text(<<"-", "1", "2", ",", "5", "%">>)

\* "-100%"
MaxReturnTotalLoss ==
  Text(<<"-", "1", "0", "0", "%">>)

\* "n/a"
MaxReturnNone ==
  Text(<<"n", "/", "a">>)

MaxReturnTexts ==
  {None, MaxReturnDouble, MaxReturnTenfold, MaxReturnFlat, MaxReturnLoss,
   MaxReturnTotalLoss, MaxReturnNone}

\* "12 mars 2020"
LaunchMars2020 ==
  Text(<<"1", "2", " ", "m", "a", "r", "s", " ", "2", "0", "2", "0">>)

\* "Le 11 Mars 2021"
LaunchYesterday ==
  Text(<<"L", "e", " ", "1", "1", " ", "M", "a", "r", "s", " ", "2", "0",
       "2", "1">>)

\* "12 mars 2021"
LaunchToday ==
  Text(<<"1", "2", " ", "m", "a", "r", "s", " ", "2", "0", "2", "1">>)

\* "1 février 2020"
LaunchFevrier ==
  Text(<<"1", " ", "f", EAcute, "v", "r", "i", "e", "r", " ", "2", "0", "2",
       "0">>)

\* "31 juin 2019"
LaunchJuin31 ==
  Text(<<"3", "1", " ", "j", "u", "i", "n", " ", "2", "0", "1", "9">>)

\* "mars 2020"
LaunchNoDate ==
  Text(<<"m", "a", "r", "s", " ", "2", "0", "2", "0">>)

LaunchDateTexts ==
  {None, LaunchMars2020, LaunchYesterday, LaunchToday, LaunchFevrier,
   LaunchJuin31, LaunchNoDate}

\* dt.date.today() of the runs
Todays == {Date(2021, 3, 12), Date(2021, 3, 10)}

\* launch dates of a years_between call: unknown, the days around today, and
\* the days one to four years back, one day more and one day less
StartDates ==
  {None} \cup
  { Date(y, 3, d) : y \in 2017..2021, d \in 9..13 }

\* the values the writers format: whole numbers, decimals with fewer and with
\* more places than the precision, halves of the last place, both signs
WrittenValues ==
  { Norm(s * m, e) :
      s \in {1, -1},
      m \in {0, 1, 5, 15, 25, 500, 995, 1005, 12345, 99995, 123456789},
      e \in {0, 1, 2, 3, 5, 7, 11} }

\* the ndigits of the fmt_number calls of the writers
Precisions == {2, 3, 4, 6, 10}

\* the dict parse_profile_html returns, as far as the CAGR step reads it
Parsed(nom, max_return_text, launch_date_text) ==
  [nom |-> nom,
   cagr_depuis_creation_pct |-> None,
   cagr_depuis_creation_source |-> None,
   heatmap_mensuelle |-> None,
   _meta_returns |-> [tag |-> "dict", max_return_text |-> max_return_text,
                      launch_date_text |-> launch_date_text]]

\* the calls: a function of the analytics with arguments
Calls ==
  {[fn |-> "compute_cagr_from_heatmap", heatmap |-> h] : h \in Heatmaps}
  \cup {[fn |-> "scrape_compute_cagr_from_heatmap", heatmap |-> h] : h \in Heatmaps}
  \cup {[fn |-> "compute_yearly_returns_from_heatmap", heatmap |-> h] :
          h \in Heatmaps}
  \cup {[fn |-> "classify_category", name |-> n, axis |-> a] :
          n \in Names, a \in Axes}
  \cup {[fn |-> "compute_cagr_from_max_return",
         parsed |-> Parsed("ETF", m, l), today |-> t] :
          m \in MaxReturnTexts, l \in LaunchDateTexts, t \in Todays}
  \cup {[fn |-> "build_overview_rows", files |-> <<d>>] : d \in Documents}
  \cup {[fn |-> "fmt_number", value |-> v, ndigits |-> n] :
          v \in WrittenValues, n \in Precisions}
  \cup {[fn |-> "years_between", start_date |-> s, end_date |-> t] :
          s \in StartDates, t \in Todays}

\* --------------------------------------------------- inputs of the scraper
\* the ISINs of the list load_isins returns, by position (the list may also
\* name its first ISIN again: load_isins keeps every item)
Isins == <<"IE00A", "LU00B", "FR00C", "DE00D">>

\* name of the instrument on its page
NomEtf == Text(<<"W", "o", "r", "l", "d", " ", "E", "T", "F">>)

\* what the site answers for one ISIN: the profile request (a page, or an
\* HTTPError or URLError), the texts parse_profile_html finds on the page, and
\* what fetch_heatmap_data comes back with (a grid, None, or a URLError)
Answer(profile, nom, max_return_text, launch_date_text, heatmap) ==
  [profile |-> profile, nom |-> nom, max_return_text |-> max_return_text,
   launch_date_text |-> launch_date_text, heatmap |-> heatmap]

\* the grids of the pages: none, a flat year, one doubling month, a doubling
\* and a halving, a total loss, and a grid whose year label is no number
PageHeatmaps ==
  { None, FlatYear,
    Grid(<<Row(Year2021, IntVal(1), Norm(100, 0))>>),
    Grid(<<Row(Year2021, IntVal(2), Norm(-50, 0)),
           Row(Year2021, IntVal(1), Norm(100, 0))>>),
    Grid(<<Row(Year2020, IntVal(11), Norm(-100, 0))>>),
    Grid(<<Row(YearNA, IntVal(1), Norm(100, 0))>>) }

\* the pages that yield a document: a maximum return that is a gain, a
\* total loss or missing, a launch date long ago, yesterday, today or missing
GoodAnswers ==
  { Answer("ok", NomEtf, m, l, h) :
      m \in {MaxReturnDouble, MaxReturnTenfold, MaxReturnTotalLoss, MaxReturnNone},
      l \in {LaunchMars2020, LaunchYesterday, LaunchToday, LaunchNoDate},
      h \in PageHeatmaps }

\* the answers that end an ISIN with an error: the profile request fails, the
\* page has no name, the heatmap request fails
BadAnswers ==
  { Answer("HTTPError", None, None, None, None),
    Answer("URLError", None, None, None, None),
    Answer("ok", None, MaxReturnDouble, LaunchMars2020, FlatYear),
    Answer("ok", NomEtf, MaxReturnDouble, LaunchMars2020, Raised("URLError")) }

\* the answers of a run under the ISINs of the list: position k has the k-th
\* ISIN, or, in a list that repeats, the last position has the first ISIN again
Listed(answers, repeats) ==
  [k \in 1..Len(answers) |->
     [isin |-> IF repeats /\ k = Len(answers) THEN Isins[1] ELSE Isins[k],
      profile |-> answers[k].profile,
      nom |-> answers[k].nom,
      max_return_text |-> answers[k].max_return_text,
      launch_date_text |-> answers[k].launch_date_text,
      heatmap |-> answers[k].heatmap]]

\* the answers before the last ISIN of a run: an error or a page with a grid
EarlierAnswers == BadAnswers \cup {Answer("ok", NomEtf, None, None, FlatYear)}

\* the runs: up to MaxIsins ISINs, the last one answered in any way; and the
\* runs of two and more ISINs whose last ISIN repeats the first
Sites ==
  {<<>>} \cup
  { Listed(before \o <<last>>, FALSE) :
      before \in SeqsUpTo(EarlierAnswers, MaxIsins - 1),
      last \in GoodAnswers \cup BadAnswers } \cup
  { Listed(before \o <<last>>, TRUE) :
      before \in SeqsUpTo(EarlierAnswers, MaxIsins - 1) \ {<<>>},
      last \in EarlierAnswers }

\* (capital_initial, inflation, dca_mensuel): the defaults and another run
ParameterSets ==
  { [capital |-> Norm(10000, 0), inflation |-> Norm(2, 2), dca |-> Zero],
    [capital |-> Norm(25005, 1), inflation |-> Norm(35, 3), dca |-> Norm(150, 0)] }

Init ==
  /\ files \in Directories
  /\ years \in 1..MaxYears
  /\ \E p \in ParameterSets :
       /\ capital_initial = p.capital
       /\ inflation = p.inflation
       /\ dca_mensuel = p.dca
  /\ rows = <<>>
  /\ overview = <<>>
  /\ pc = "build_overview_rows"
  /\ matrix = <<>>
  /\ col_count = 0
  /\ fault = FALSE
  /\ out = <<>>
  /\ NoCall
  /\ NoScrape
  /\ NoPoll
  /\ NoParse
  /\ colIn = 0
  /\ colOut = <<>>

\* ---------------------------------------------------------------- actions
\* rows = build_overview_rows(files, ticker_map)
BuildRows ==
  /\ pc = "build_overview_rows"
  /\ rows' = BuildOverviewRows(files)
  /\ pc' = "write_overview_csv"
  /\ UNCHANGED <<pollVars, parserVars>>
  /\ UNCHANGED <<inputs, overview, matrix, col_count, fault, out, colVars, fnVars, scrapeVars>>

\* write_overview_csv(args.overview_csv, rows)
WriteOverview ==
  /\ pc = "write_overview_csv"
  /\ overview' = OverviewLines(rows)
  /\ pc' = "write_projection_csv"
  /\ UNCHANGED <<pollVars, parserVars>>
  /\ UNCHANGED <<inputs, rows, matrix, col_count, fault, out, colVars, fnVars, scrapeVars>>

\* the grid and the position after a run of set_cell calls on a grid m of
\* width cc: an IndexError leaves the function where it is
Apply(m, cc, writes, next_pc) ==
  LET st == SetCells([m |-> m, col_count |-> cc, fault |-> FALSE], writes)
  IN  /\ ~fault
      /\ matrix' = st.m
      /\ fault' = st.fault
      /\ pc' = IF st.fault THEN pc ELSE next_pc

\* write_projection_csv, empty list: the placeholder file
WritePlaceholder ==
  /\ pc = "write_projection_csv"
  /\ rows = <<>>
  /\ out' = PlaceholderRows
  /\ pc' = "done"
  /\ UNCHANGED <<pollVars, parserVars>>
  /\ UNCHANGED <<inputs, rows, overview, matrix, col_count, fault, colVars, fnVars, scrapeVars>>

\* write_projection_csv, non-empty list: parameters block and rate labels
WriteParameters ==
  /\ pc = "write_projection_csv"
  /\ rows # <<>>
  /\ col_count' = ColCount(rows)
  /\ Apply(<<>>, ColCount(rows),
           ParameterBlock(years, capital_initial, inflation, dca_mensuel), "rate_block")
  /\ UNCHANGED <<pollVars, parserVars>>
  /\ UNCHANGED <<inputs, rows, overview, out, colVars, fnVars, scrapeVars>>

\* the rate block: one column per instrument
WriteRateBlock ==
  /\ pc = "rate_block"
  /\ Apply(matrix, col_count, RateBlock(rows), "net_growth")
  /\ UNCHANGED <<pollVars, parserVars>>
  /\ UNCHANGED <<inputs, rows, overview, col_count, out, colVars, fnVars, scrapeVars>>

\* the fee-adjusted growth block
WriteNetGrowth ==
  /\ pc = "net_growth"
  /\ Apply(matrix, col_count, NetGrowthBlock(rows, years, capital_initial), "no_cost_growth")
  /\ UNCHANGED <<pollVars, parserVars>>
  /\ UNCHANGED <<inputs, rows, overview, col_count, out, colVars, fnVars, scrapeVars>>

\* the fee-free growth block
WriteNoCostGrowth ==
  /\ pc = "no_cost_growth"
  /\ Apply(matrix, col_count, NoCostGrowthBlock(rows, years, capital_initial), "summary")
  /\ UNCHANGED <<pollVars, parserVars>>
  /\ UNCHANGED <<inputs, rows, overview, col_count, out, colVars, fnVars, scrapeVars>>

\* the summary block
WriteSummary ==
  /\ pc = "summary"
  /\ Apply(matrix, col_count, SummaryBlock(rows, years), "write_file")
  /\ UNCHANGED <<pollVars, parserVars>>
  /\ UNCHANGED <<inputs, rows, overview, col_count, out, colVars, fnVars, scrapeVars>>

\* for row in matrix: writer.writerow(row)
WriteFile ==
  /\ pc = "write_file"
  /\ out' = matrix
  /\ pc' = "done"
  /\ UNCHANGED <<pollVars, parserVars>>
  /\ UNCHANGED <<inputs, rows, overview, matrix, col_count, fault, colVars, fnVars, scrapeVars>>

Next ==
  \/ BuildRows
  \/ WriteOverview
  \/ WritePlaceholder
  \/ WriteParameters
  \/ WriteRateBlock
  \/ WriteNetGrowth
  \/ WriteNoCostGrowth
  \/ WriteSummary
  \/ WriteFile

Spec == Init /\ [][Next]_vars

\* ------------------------------------------- excel_col_name as a function
InitCol ==
  /\ colIn \in 1..MaxIndex
  /\ colOut = <<>>
  /\ files = <<>>
  /\ years = 1
  /\ capital_initial = Zero
  /\ inflation = Zero
  /\ dca_mensuel = Zero
  /\ rows = <<>>
  /\ overview = <<>>
  /\ pc = "excel_col_name"
  /\ matrix = <<>>
  /\ col_count = 0
  /\ fault = FALSE
  /\ out = <<>>
  /\ NoCall
  /\ NoScrape
  /\ NoPoll
  /\ NoParse

\* col = excel_col_name(idx)
CallExcelColName ==
  /\ pc = "excel_col_name"
  /\ colOut' = ExcelColName(colIn)
  /\ pc' = "returned"
  /\ UNCHANGED <<pollVars, parserVars>>
  /\ UNCHANGED <<inputs, rows, overview, matrix, col_count, fault, out, colIn, fnVars, scrapeVars>>

NextCol == CallExcelColName

SpecCol == InitCol /\ [][NextCol]_vars

\* ------------------------------------------- the analytics as functions
InitFn ==
  /\ call \in Calls
  /\ ret = None
  /\ pc = "call"
  /\ NoExport
  /\ NoScrape
  /\ NoPoll
  /\ NoParse

\* the call returns value
Return(value) ==
  /\ ret' = value
  /\ pc' = "returned"
  /\ UNCHANGED <<pollVars, parserVars>>
  /\ UNCHANGED <<inputs, rows, overview, matrix, col_count, fault, out, colVars,
                 call, scrapeVars>>

\* cagr = compute_cagr_from_heatmap(heatmap) of the exporter
CallComputeCagrFromHeatmap ==
  /\ pc = "call"
  /\ call.fn = "compute_cagr_from_heatmap"
  /\ Return(ComputeCagrFromHeatmap(call.heatmap))

\* cagr_from_heatmap = compute_cagr_from_heatmap(heatmap) of the scraper
CallScrapeComputeCagrFromHeatmap ==
  /\ pc = "call"
  /\ call.fn = "scrape_compute_cagr_from_heatmap"
  /\ Return(ScrapeComputeCagrFromHeatmap(call.heatmap))

\* yearly_returns = compute_yearly_returns_from_heatmap(heatmap)
CallComputeYearlyReturnsFromHeatmap ==
  /\ pc = "call"
  /\ call.fn = "compute_yearly_returns_from_heatmap"
  /\ Return(ComputeYearlyReturnsFromHeatmap(call.heatmap))

\* classify_category(name, axis)
CallClassifyCategory ==
  /\ pc = "call"
  /\ call.fn = "classify_category"
  /\ Return(ClassifyCategory(call.name, call.axis))

\* cagr_fallback = compute_cagr_from_max_return(parsed)
CallComputeCagrFromMaxReturn ==
  /\ pc = "call"
  /\ call.fn = "compute_cagr_from_max_return"
  /\ Return(ComputeCagrFromMaxReturn(call.parsed, call.today))

\* rows = build_overview_rows(files, ticker_map)
CallBuildOverviewRows ==
  /\ pc = "call"
  /\ call.fn = "build_overview_rows"
  /\ Return(BuildOverviewRows(call.files))

\* age_years = years_between(launch_date, today)
CallYearsBetween ==
  /\ pc = "call"
  /\ call.fn = "years_between"
  /\ Return(YearsBetween(call.start_date, call.end_date))

\* text = fmt_number(value, ndigits), read back by parse_percent and by
\* parse_aum_meur
CallFmtNumber ==
  /\ pc = "call"
  /\ call.fn = "fmt_number"
  /\ Return([tag |-> "text",
             text |-> FmtNumber(call.value, call.ndigits),
             percent |-> ParsePercent(Text(FmtNumber(call.value, call.ndigits))),
             aum |-> ParseAumMeur(Text(FmtNumber(call.value, call.ndigits)))])

NextFn ==
  \/ CallComputeCagrFromHeatmap
  \/ CallScrapeComputeCagrFromHeatmap
  \/ CallComputeYearlyReturnsFromHeatmap
  \/ CallClassifyCategory
  \/ CallComputeCagrFromMaxReturn
  \/ CallBuildOverviewRows
  \/ CallYearsBetween
  \/ CallFmtNumber

SpecFn == InitFn /\ [][NextFn]_vars

\* ------------------------------------------------------ the scraper run
InitScrape ==
  /\ site \in Sites
  /\ today \in Todays
  /\ idx = 1
  /\ parsed = None
  /\ documents = <<>>
  /\ errors = <<>>
  /\ exit_status = None
  /\ pc = "fetch_profile"
  /\ NoExport
  /\ NoCall
  /\ NoPoll
  /\ NoParse

\* parse_profile_html on the page of an answer (the fields the CAGR step and
\* the name check read)
ParseProfileHtml(answer, isin) ==
  [isin |-> isin,
   nom |-> answer.nom,
   cagr_depuis_creation_pct |-> None,
   cagr_depuis_creation_source |-> None,
   heatmap_mensuelle |-> None,
   _meta_returns |-> [tag |-> "dict",
                      max_return_text |-> answer.max_return_text,
                      launch_date_text |-> answer.launch_date_text]]

\* a value of cagr_depuis_creation_source
Source(name) == [tag |-> "source", name |-> name]

\* d[key] = value on a dict
Put(d, key, value) ==
  [k \in DOMAIN d \cup {key} |-> IF k = key THEN value ELSE d[k]]

FailEndsLoop(msg) ==
  /\ errors' = Put(errors, site[idx].isin, msg)
  /\ parsed' = None
  /\ idx' = idx + 1
  /\ pc' = "finish"
  /\ UNCHANGED documents

\* the except clauses and the end of the loop body: the error is recorded
\* under the ISIN and the loop goes on with the next ISIN
Fail(msg) ==
  /\ errors' = Put(errors, site[idx].isin, msg)
  /\ parsed' = None
  /\ idx' = idx + 1
  /\ pc' = IF idx + 1 > Len(site) THEN "finish" ELSE "fetch_profile"
  /\ UNCHANGED documents

\* lines 540-542: nothing to do
NoIsins ==
  /\ pc = "fetch_profile"
  /\ site = <<>>
  /\ exit_status' = 0
  /\ pc' = "done"
  /\ UNCHANGED <<pollVars, parserVars>>
  /\ UNCHANGED <<inputs, rows, overview, matrix, col_count, fault, out, colVars,
                 fnVars, site, today, idx, parsed, documents, errors>>

\* lines 555-561: the profile page is fetched and parsed
FetchProfile ==
  /\ pc = "fetch_profile"
  /\ idx <= Len(site)
  /\ IF site[idx].profile # "ok" THEN Fail(site[idx].profile)
     ELSE IF site[idx].nom.tag # "str" \/ site[idx].nom.s = <<>>
          THEN Fail("Nom introuvable")
          ELSE /\ parsed' = ParseProfileHtml(site[idx], site[idx].isin)
               /\ pc' = "fetch_heatmap"
               /\ UNCHANGED <<idx, documents, errors>>
  /\ UNCHANGED <<pollVars, parserVars>>
  /\ UNCHANGED <<inputs, rows, overview, matrix, col_count, fault, out, colVars,
                 fnVars, site, today, exit_status>>

\* lines 563-570: heatmap = fetch_heatmap_data(...)
FetchHeatmap ==
  /\ pc = "fetch_heatmap"
  /\ IF site[idx].heatmap.tag = "raise" THEN Fail(site[idx].heatmap.exc)
     ELSE /\ parsed' = [parsed EXCEPT !.heatmap_mensuelle = site[idx].heatmap]
          /\ pc' = "compute_cagr"
          /\ UNCHANGED <<idx, documents, errors>>
  /\ UNCHANGED <<pollVars, parserVars>>
  /\ UNCHANGED <<inputs, rows, overview, matrix, col_count, fault, out, colVars,
                 fnVars, site, today, exit_status>>

RecordedUntagged(doc, cagr, source) ==
  [doc EXCEPT !.cagr_depuis_creation_pct = Round6(cagr)]

\* lines 574-575 and 579-580: the rate rounded and its source recorded
Recorded(doc, cagr, source) ==
  [doc EXCEPT !.cagr_depuis_creation_pct = Round6(cagr),
              !.cagr_depuis_creation_source = Source(source)]

\* lines 577-580, given the fallback estimate (it may have raised)
RecordFallback(cagr_fallback) ==
  IF cagr_fallback.tag = "raise" THEN Fail("math range error")
  ELSE /\ parsed' = IF cagr_fallback # None
                    THEN Recorded(parsed, cagr_fallback,
                                  "max_return_plus_launch_date")
                    ELSE parsed
       /\ pc' = "write_document"
       /\ UNCHANGED <<idx, documents, errors>>

RecordCagrFallbackFirst(cagr_from_heatmap) ==
  IF cagr_from_heatmap # None
       /\ ComputeCagrFromMaxReturn(parsed, today).tag # "num"
  THEN /\ parsed' = Recorded(parsed, cagr_from_heatmap, "heatmap_mensuelle")
       /\ pc' = "write_document"
       /\ UNCHANGED <<idx, documents, errors>>
  ELSE RecordFallback(ComputeCagrFromMaxReturn(parsed, today))

\* lines 573-580, given the rate of the grid
RecordCagr(cagr_from_heatmap) ==
  IF cagr_from_heatmap # None
  THEN /\ parsed' = Recorded(parsed, cagr_from_heatmap, "heatmap_mensuelle")
       /\ pc' = "write_document"
       /\ UNCHANGED <<idx, documents, errors>>
  ELSE RecordFallback(ComputeCagrFromMaxReturn(parsed, today))

\* lines 572-580
ComputeCagr ==
  /\ pc = "compute_cagr"
  /\ RecordCagr(ScrapeComputeCagrFromHeatmap(parsed.heatmap_mensuelle))
  /\ UNCHANGED <<pollVars, parserVars>>
  /\ UNCHANGED <<inputs, rows, overview, matrix, col_count, fault, out, colVars,
                 fnVars, site, today, exit_status>>

\* lines 582-583: del parsed["_meta_returns"]
WithoutMeta(doc) == [f \in DOMAIN doc \ {"_meta_returns"} |-> doc[f]]

\* lines 582-586: the document is written to {isin}.json
WriteDocument ==
  /\ pc = "write_document"
  /\ documents' = Put(documents, site[idx].isin, WithoutMeta(parsed))
  /\ parsed' = None
  /\ idx' = idx + 1
  /\ pc' = IF idx + 1 > Len(site) THEN "finish" ELSE "fetch_profile"
  /\ UNCHANGED <<pollVars, parserVars>>
  /\ UNCHANGED <<inputs, rows, overview, matrix, col_count, fault, out, colVars,
                 fnVars, site, today, errors, exit_status>>

\* lines 604-611: errors.json and the exit status
Finish ==
  /\ pc = "finish"
  /\ exit_status' = IF DOMAIN errors # {} THEN 2 ELSE 0
  /\ pc' = "done"
  /\ UNCHANGED <<pollVars, parserVars>>
  /\ UNCHANGED <<inputs, rows, overview, matrix, col_count, fault, out, colVars,
                 fnVars, site, today, idx, parsed, documents, errors>>

NextScrape ==
  \/ NoIsins
  \/ FetchProfile
  \/ FetchHeatmap
  \/ ComputeCagr
  \/ WriteDocument
  \/ Finish

SpecScrape == InitScrape /\ [][NextScrape]_vars

\* ------------------------------------- fetch_heatmap_data, request by request
\* for attempt in range(1, 6)
MaxAttempts == 5

\* a callback URL found in the profile page
Url(name) == [tag |-> "url", name |-> name]

\* the profile pages: with or without the timer callback, with or without
\* the view-mode callback of the returns section
ProfilePages ==
  [timer : {None, Url("timer")}, viewmode : {None, Url("returnsSection-viewMode")}]

\* extract_timer_ajax_url: the first timer callback of the page, or None
ExtractTimerAjaxUrl(page_html) == page_html.timer

\* extract_wicket_ajax_url(page_html, "returnsSection-viewMode")
ExtractWicketAjaxUrl(page_html) == page_html.viewmode

\* the answer of a callback, by what fetch_heatmap_data reads in its CDATA
\* blocks: the grid parse_heatmap_from_chart_script finds (None: no grid) and
\* whether they hold "Wicket.Timer.set("
Response(heatmap, timer_set) ==
  [tag |-> "xml", heatmap |-> heatmap, timer_set |-> timer_set]

\* the answers of the site: with or without grid, rescheduling the timer or
\* not; or the request fails
Responses ==
  {Response(h, t) : h \in {None, FlatYear, Grid(<<Row(Year2021, IntVal(1), Norm(100, 0))>>)},
                    t \in BOOLEAN}
    \cup {Raised("URLError")}

\* the entry of a request in the list of requests sent
Request(kind, response, slept) ==
  [kind |-> kind, response |-> response, slept |-> slept]

TimerOutcomeKeepsPolling(response, n) ==
  IF response.tag = "raise"
  THEN [pc |-> "returned", ret |-> response, attempt |-> n, slept |-> FALSE]
  ELSE IF n < MaxAttempts
       THEN [pc |-> "timer", ret |-> None, attempt |-> n + 1,
             slept |-> response.timer_set /\ n < MaxAttempts]
       ELSE [pc |-> "viewmode", ret |-> None, attempt |-> n, slept |-> FALSE]

\* the body of the timer loop on the answer to attempt n: return the grid
\* when there is one; else sleep and continue when the answer reschedules
\* the timer and n < 5.  The body ends after that test, so without the
\* continue the loop goes to its next attempt as well, and leaves for the
\* view-mode request once range(1, 6) is used up
TimerOutcome(response, n) ==
  IF response.tag = "raise"
  THEN [pc |-> "returned", ret |-> response, attempt |-> n, slept |-> FALSE]
  ELSE IF response.heatmap # None
  THEN [pc |-> "returned", ret |-> response.heatmap, attempt |-> n, slept |-> FALSE]
  ELSE IF n < MaxAttempts
       THEN [pc |-> "timer", ret |-> None, attempt |-> n + 1,
             slept |-> response.timer_set /\ n < MaxAttempts]
       ELSE [pc |-> "viewmode", ret |-> None, attempt |-> n, slept |-> FALSE]

InitPoll ==
  /\ call \in {[fn |-> "fetch_heatmap_data", profile_html |-> p] : p \in ProfilePages}
  /\ ret = None
  /\ pc = "fetch_heatmap_data"
  /\ attempt = 0
  /\ requests = <<>>
  /\ NoExport
  /\ NoScrape
  /\ NoParse

\* timer_url = extract_timer_ajax_url(profile_html); if timer_url: enter the
\* loop, else go on to the view-mode URL
StartPolling ==
  /\ pc = "fetch_heatmap_data"
  /\ IF ExtractTimerAjaxUrl(call.profile_html) # None
     THEN attempt' = 1 /\ pc' = "timer"
     ELSE attempt' = attempt /\ pc' = "viewmode"
  /\ UNCHANGED <<call, ret, requests>>
  /\ UNCHANGED <<inputs, rows, overview, matrix, col_count, fault, out, colVars,
                 scrapeVars, parserVars>>

\* one pass of the timer loop: the GET of the timer callback and what the
\* body does with the answer
TimerRequest ==
  /\ pc = "timer"
  /\ \E response \in Responses :
       LET o == TimerOutcome(response, attempt)
       IN  /\ requests' = Append(requests, Request("timer", response, o.slept))
           /\ attempt' = o.attempt
           /\ ret' = o.ret
           /\ pc' = o.pc
  /\ UNCHANGED call
  /\ UNCHANGED <<inputs, rows, overview, matrix, col_count, fault, out, colVars,
                 scrapeVars, parserVars>>

\* if not viewmode_url: return None
NoViewModeUrl ==
  /\ pc = "viewmode"
  /\ ExtractWicketAjaxUrl(call.profile_html) = None
  /\ ret' = None
  /\ pc' = "returned"
  /\ UNCHANGED <<call, attempt, requests>>
  /\ UNCHANGED <<inputs, rows, overview, matrix, col_count, fault, out, colVars,
                 scrapeVars, parserVars>>

\* the POST of the view-mode callback; its grid, or None, is returned
ViewModeRequest ==
  /\ pc = "viewmode"
  /\ ExtractWicketAjaxUrl(call.profile_html) # None
  /\ \E response \in Responses :
       /\ requests' = Append(requests, Request("viewmode", response, FALSE))
       /\ ret' = IF response.tag = "raise" THEN response ELSE response.heatmap
  /\ pc' = "returned"
  /\ UNCHANGED <<call, attempt>>
  /\ UNCHANGED <<inputs, rows, overview, matrix, col_count, fault, out, colVars,
                 scrapeVars, parserVars>>

NextPoll ==
  \/ StartPolling
  \/ TimerRequest
  \/ NoViewModeUrl
  \/ ViewModeRequest

\* every request is made with the timeout of the command line and the sleep
\* between attempts is 0.35 s, so a step that can be taken is taken
SpecPoll == InitPoll /\ [][NextPoll]_vars /\ WF_vars(NextPoll)

\* ------------------------------------- DataTestIdTextParser, event by event
MaxEvents == 5

\* TARGET_TESTIDS["name"]
NameTestId == "etf-profile-header_etf-name"

\* the target ids the parser is built with
TargetIds == {NameTestId}

\* attrs without data-testid
NoTestId == ""

\* the events HTMLParser hands to the handlers
StartTag(tag, testid) == [type |-> "start", tag |-> tag, testid |-> testid]

EndTag(tag) == [type |-> "end", tag |-> tag]

Data(data) == [type |-> "data", data |-> data]

\* a target element, an element without data-testid, and a line break, which
\* has a start tag only
StartTags ==
  {StartTag("div", NameTestId), StartTag("span", NoTestId), StartTag("br", NoTestId)}

EndTags == {EndTag("div"), EndTag("span")}

\* text, white space, and the empty string
DataChunks == {<<"A">>, <<" ">>, <<>>}

\* "".join(capture["buf"])
Join(buf) == Flatten(buf)

\* {"id": testid, "depth": 1, "buf": []}
Capture(testid) == [id |-> testid, depth |-> 1, buf |-> <<>>]

\* for capture in self.active: capture["depth"] += 1; a start tag whose
\* data-testid is a target id opens a capture
StartTagHandled(act, testid) ==
  LET deeper == [i \in DOMAIN act |-> [act[i] EXCEPT !.depth = @ + 1]]
  IN  IF testid \in TargetIds THEN Append(deeper, Capture(testid)) ELSE deeper

\* capture["depth"] -= 1 for every active capture
EndTagCounted(act) == [i \in DOMAIN act |-> [act[i] EXCEPT !.depth = @ - 1]]

RECURSIVE RecordClosed(_, _)
\* the captures whose depth reached 0, in the order of self.active: the
\* cleaned text is appended to the results of its id unless it is empty
RecordClosed(res, counted) ==
  IF counted = <<>> THEN res
  ELSE LET capture == counted[1]
           text    == CleanText(Join(capture.buf))
       IN  IF capture.depth = 0 /\ text # <<>>
           THEN RecordClosed([res EXCEPT ![capture.id] = Append(@, text)], Tail(counted))
           ELSE RecordClosed(res, Tail(counted))

\* for idx in reversed(to_remove): self.active.pop(idx)
StillActive(counted) == SelectSeq(counted, LAMBDA capture : capture.depth # 0)

\* capture["buf"].append(data) for every active capture
DataHandled(act, data) ==
  IF data = <<>> THEN act
  ELSE [i \in DOMAIN act |-> [act[i] EXCEPT !.buf = Append(@, data)]]

\* DataTestIdTextParser(target_ids)
InitParser ==
  /\ active = <<>>
  /\ results = [tid \in TargetIds |-> <<>>]
  /\ fed = <<>>
  /\ pc = "feed"
  /\ NoExport
  /\ NoCall
  /\ NoScrape
  /\ NoPoll

\* handle_starttag(tag, attrs)
HandleStarttag ==
  /\ Len(fed) < MaxEvents
  /\ \E event \in StartTags :
       /\ active' = StartTagHandled(active, event.testid)
       /\ fed' = Append(fed, event)
  /\ UNCHANGED results
  /\ UNCHANGED <<inputs, rows, overview, matrix, col_count, fault, out, colVars,
                 fnVars, pc, scrapeVars, pollVars>>

\* handle_endtag(tag)
HandleEndtag ==
  /\ Len(fed) < MaxEvents
  /\ \E event \in EndTags :
       /\ results' = RecordClosed(results, EndTagCounted(active))
       /\ active' = StillActive(EndTagCounted(active))
       /\ fed' = Append(fed, event)
  /\ UNCHANGED <<inputs, rows, overview, matrix, col_count, fault, out, colVars,
                 fnVars, pc, scrapeVars, pollVars>>

\* handle_data(data)
HandleData ==
  /\ Len(fed) < MaxEvents
  /\ \E data \in DataChunks :
       /\ active' = DataHandled(active, data)
       /\ fed' = Append(fed, Data(data))
  /\ UNCHANGED results
  /\ UNCHANGED <<inputs, rows, overview, matrix, col_count, fault, out, colVars,
                 fnVars, pc, scrapeVars, pollVars>>

NextParser ==
  \/ HandleStarttag
  \/ HandleEndtag
  \/ HandleData

SpecParser == InitParser /\ [][NextParser]_vars

\* ============================================================ properties
\* reading a sheet: independent of the operators that wrote it
LetterValue(c) == CHOOSE i \in 1..26 : Letters[i] = c

RECURSIVE ColumnNumber(_)
\* a column name read with the positional weights of 26, A = 1 .. Z = 26
ColumnNumber(name) ==
  IF name = <<>> THEN 0
  ELSE 26 * ColumnNumber(SubSeq(name, 1, Len(name) - 1)) + LetterValue(name[Len(name)])

\* the cell at 0-based (r, c) of a grid, "" outside it
CellAt(m, r, c) ==
  IF r >= 0 /\ r < Len(m) /\ c >= 0 /\ c < Len(m[r + 1]) THEN m[r + 1][c + 1] ELSE Blank

IsFormula(cell) == cell # <<>> /\ cell[1] = Lit("=")

IsRef(tok) == tok.k = "ref"

\* the 0-based grid position a reference addresses
TargetRow(ref) == ref.row - 1

TargetCol(ref) == ColumnNumber(ref.col) - 1

\* the 0-based rows whose first cell is the label
RowsLabelled(m, label) == {r \in 0..(Len(m) - 1) : CellAt(m, r, 0) = TextCell(label)}

\* the reference addresses the value cell (column B) of a parameter row
AddressesParameter(m, ref, label) ==
  /\ IsRef(ref) /\ ref.absc /\ ref.absr
  /\ TargetCol(ref) = 1
  /\ TargetRow(ref) \in RowsLabelled(m, label)

\* the reference addresses column c of the rate-block row with the label
AddressesRate(m, ref, label, c) ==
  /\ IsRef(ref) /\ ~ref.absc
  /\ TargetCol(ref) = c
  /\ TargetRow(ref) \in RowsLabelled(m, label)

\* the number a run of character tokens prints (decimal comma)
PrintedValue(toks) == ParsePercent(Text([i \in 1..Len(toks) |-> toks[i].s]))

Stage ==
  CASE pc = "build_overview_rows" -> 0
    [] pc = "write_overview_csv" -> 1
    [] pc = "write_projection_csv" -> 2
    [] pc = "rate_block" -> 3
    [] pc = "net_growth" -> 4
    [] pc = "no_cost_growth" -> 5
    [] pc = "summary" -> 6
    [] pc = "write_file" -> 7
    [] pc = "done" -> 8
    [] OTHER -> -1

N == Len(rows)

Terminated == pc = "done" \/ fault

RateBlockBuilt == rows # <<>> /\ Stage >= 4

NetGrowthBuilt == rows # <<>> /\ Stage >= 5

NoCostGrowthBuilt == rows # <<>> /\ Stage >= 6

\* the 0-based header rows of the two growth blocks and of the summary block
NetHeaderRows == RowsLabelled(matrix, "Annee")

NoCostHeaderRows == RowsLabelled(matrix, "Annee (sans frais)")

SummaryHeaderRows ==
  {r \in RowsLabelled(matrix, "ISIN") : CellAt(matrix, r, 1) = TextCell("Nom ETF")}

\* C1: for N >= 1 instruments and any horizon, write_projection_csv completes
\* without a fault, every cell it writes lies inside the grid, and all rows of
\* the emitted grid have the same width.
C1_CompletesInsideGrid ==
  /\ ~fault
  /\ (pc = "done" /\ rows # <<>>) =>
        /\ out # <<>>
        /\ \A i \in 1..Len(out) : Len(out[i]) = Len(out[1])

\* the summary block of the grid: one row per instrument in input order, each
\* addressing the year-H rows of the two growth blocks in its own column
SummaryBlockRight(m) ==
  \E h \in SummaryHeaderRows : \E hn \in NetHeaderRows : \E hf \in NoCostHeaderRows :
    /\ \A i \in 1..N :
         LET r    == h + i
             net  == CellAt(m, r, 2)
             free == CellAt(m, r, 3)
             gap  == CellAt(m, r, 4)
             frac == CellAt(m, r, 5)
         IN  /\ CellAt(m, r, 0) = TextCell(rows[i].ISIN)
             /\ IsFormula(net) /\ Len(net) = 2 /\ IsRef(net[2])
             /\ TargetCol(net[2]) = i
             /\ TargetRow(net[2]) = hn + 1 + years
             /\ CellAt(m, hn + 1 + years, 0) = Chars(Str(years))
             /\ IsFormula(free) /\ Len(free) = 2 /\ IsRef(free[2])
             /\ TargetCol(free[2]) = i
             /\ TargetRow(free[2]) = hf + 1 + years
             /\ CellAt(m, hf + 1 + years, 0) = Chars(Str(years))
             /\ Len(gap) = 4 /\ IsFormula(gap) /\ IsRef(gap[2]) /\ IsRef(gap[4])
             /\ gap[3] = Lit("-")
             /\ TargetRow(gap[2]) = r /\ TargetCol(gap[2]) = 3
             /\ TargetRow(gap[4]) = r /\ TargetCol(gap[4]) = 2
             /\ Len(frac) = 4 /\ IsFormula(frac) /\ IsRef(frac[2]) /\ IsRef(frac[4])
             /\ frac[3] = Lit("/")
             /\ TargetRow(frac[2]) = r /\ TargetCol(frac[2]) = 4
             /\ TargetRow(frac[4]) = r /\ TargetCol(frac[4]) = 3
    /\ \A c \in 0..(col_count - 1) : CellAt(m, h + N + 1, c) = Blank

\* C2: for N instruments and horizon H the summary block has exactly one row
\* per instrument in input order; in the row of instrument i the fee-adjusted
\* cell addresses column i+1 at the year-H row of the fee-adjusted growth
\* block, the fee-free cell the same column at the year-H row of the fee-free
\* block, the shortfall is fee-free minus fee-adjusted of that row and the
\* fraction is shortfall over fee-free of that row.
C2_SummaryBlock == (Terminated /\ rows # <<>>) => SummaryBlockRight(matrix)

\* the summary block is right wherever the builder got as far as writing it
C2_SummaryWhenWritten == (pc = "done" /\ rows # <<>>) => SummaryBlockRight(out)

\* a growth block below header row h: the year labels 0..H, then nothing
GrowthBlockRows(m, h) ==
  /\ \A y \in 0..years :
       /\ CellAt(m, h + 1 + y, 0) = Chars(Str(y))
       /\ \A i \in 1..N : CellAt(m, h + 1 + y, i) # Blank
  /\ \A c \in 0..(col_count - 1) : CellAt(m, h + 2 + years, c) = Blank

\* C3: the fee-adjusted growth block has exactly H+1 data rows (years 0..H)
\* in every instrument column, and its year-0 cell is, in every instrument
\* column, the formula referencing the initial-capital cell of the parameter
\* block ($B$2), not a literal copy of the capital.
C3_NetGrowthBlockRows ==
  NetGrowthBuilt =>
    /\ Cardinality(NetHeaderRows) = 1
    /\ \A h \in NetHeaderRows :
         /\ GrowthBlockRows(matrix, h)
         /\ \A i \in 1..N :
              LET cell == CellAt(matrix, h + 1, i)
              IN  /\ IsFormula(cell) /\ Len(cell) = 2
                  /\ AddressesParameter(matrix, cell[2], "Capital initial")
                  /\ CellAt(matrix, TargetRow(cell[2]), TargetCol(cell[2]))
                       = Chars(FmtNumber(capital_initial, 2))

C3_Witness == NetGrowthBuilt /\ years >= 2 /\ N >= 2 /\ ~fault

\* in the block below header row h every cell of a year y >= 1 is a formula
\* whose first operand addresses the row above it in its own column
PreviousOperandRight(m, h) ==
  \A y \in 1..years : \A i \in 1..N :
    LET cell == CellAt(m, h + 1 + y, i)
    IN  /\ IsFormula(cell) /\ Len(cell) >= 2
        /\ IsRef(cell[2]) /\ ~cell[2].absc /\ ~cell[2].absr
        /\ TargetCol(cell[2]) = i
        /\ TargetRow(cell[2]) = h + y
        /\ CellAt(m, TargetRow(cell[2]), 0) = Chars(Str(y - 1))

\* C4: in both growth blocks, for every instrument column and every year y in
\* 1..H, the cell is a formula whose previous operand addresses the cell of
\* year y-1 in the same column of the same block (the row immediately above).
C4_PreviousRowOperand ==
  /\ NetGrowthBuilt => \A h \in NetHeaderRows : PreviousOperandRight(matrix, h)
  /\ NoCostGrowthBuilt =>
       /\ Cardinality(NoCostHeaderRows) = 1
       /\ \A h \in NoCostHeaderRows : PreviousOperandRight(matrix, h)

C4_Witness == NoCostGrowthBuilt /\ years >= 2 /\ N >= 2

\* the cell is previous * (1 + rate) + contribution * 12 with the rate taken
\* from column i of the labelled rate row
GrowthStepRight(m, h, label) ==
  \A y \in 1..years : \A i \in 1..N :
    LET cell == CellAt(m, h + 1 + y, i)
    IN  /\ Len(cell) = 7
        /\ cell[1] = Lit("=") /\ IsRef(cell[2])
        /\ cell[3] = Lit("*(1+")
        /\ AddressesRate(m, cell[4], label, i)
        /\ cell[5] = Lit(")+")
        /\ AddressesParameter(m, cell[6], "DCA mensuel")
        /\ cell[7] = Lit("*12")

\* C5: for every instrument column and year y >= 1 the fee-adjusted growth
\* formula takes its rate from the net-real-annual-rate cell of the same
\* column, the fee-free one from the raw CAGR cell of the same column, and
\* both add 12 times the monthly-contribution cell:
\* next = previous * (1 + rate) + 12 * monthly_contribution.
C5_GrowthStepRates ==
  /\ NetGrowthBuilt =>
       \A h \in NetHeaderRows : GrowthStepRight(matrix, h, "Rendement net reel annuel")
  /\ NoCostGrowthBuilt =>
       \A h \in NoCostHeaderRows : GrowthStepRight(matrix, h, "CAGR brut annuel")

C5_Witness == NoCostGrowthBuilt /\ N >= 2 /\ dca_mensuel # Zero

\* the rate block's row of a label (the first one: the summary header also
\* starts with "ISIN")
RateRow(label) ==
  CHOOSE r \in RowsLabelled(matrix, label) : \A q \in RowsLabelled(matrix, label) : r <= q

\* C6: for every instrument the net-real-annual-rate cell is the formula
\* (1+cagr)*(1-ter)/(1+inflation)-1 with cagr and ter addressing the CAGR and
\* expense-ratio cells of that instrument's column and inflation addressing
\* the inflation cell of the parameter block; the CAGR and expense-ratio
\* cells are formulas whose value is the instrument's percent figure / 100.
C6_NetRateFormula ==
  RateBlockBuilt =>
    \A i \in 1..N :
      LET net  == CellAt(matrix, RateRow("Rendement net reel annuel"), i)
          cagr == CellAt(matrix, RateRow("CAGR brut annuel"), i)
          ter  == CellAt(matrix, RateRow("TER annuel"), i)
      IN  /\ Len(net) = 8
          /\ net[1] = Lit("=") /\ net[2] = Lit("(1+")
          /\ AddressesRate(matrix, net[3], "CAGR brut annuel", i) /\ ~net[3].absr
          /\ net[4] = Lit(")*(1-")
          /\ AddressesRate(matrix, net[5], "TER annuel", i) /\ ~net[5].absr
          /\ net[6] = Lit(")/(1+")
          /\ AddressesParameter(matrix, net[7], "Inflation annuelle")
          /\ CellAt(matrix, TargetRow(net[7]), TargetCol(net[7]))
               = Chars(FmtNumber(inflation, 6))
          /\ net[8] = Lit(")-1")
          /\ IsFormula(cagr) /\ IsFormula(ter)
          /\ IsNumber(rows[i].CAGR) => PrintedValue(Tail(cagr)) = Div100(rows[i].CAGR)
          /\ IsNumber(rows[i].TER) => PrintedValue(Tail(ter)) = Div100(rows[i].TER)

C6_Witness ==
  /\ RateBlockBuilt /\ N >= 2
  /\ \E i \in 1..N : IsNumber(rows[i].CAGR) /\ rows[i].CAGR # Zero /\ IsNumber(rows[i].TER)

\* the instrument columns of a header row carry the ISINs of the list in
\* list order, none of them twice
IsinColumnsRight(m, r) ==
  /\ \A i \in 1..N : CellAt(m, r, i) = TextCell(rows[i].ISIN)
  /\ \A i, j \in 1..N : i # j => CellAt(m, r, i) # CellAt(m, r, j)

\* C7: every ISIN of the instrument list appears at most once among the
\* instrument columns of the projection sheet (rate block and growth-block
\* headers), and the columns are in the order of the input list.
C7_IsinColumnsUnique ==
  /\ RateBlockBuilt => IsinColumnsRight(matrix, RateRow("ISIN"))
  /\ NetGrowthBuilt => \A h \in NetHeaderRows : IsinColumnsRight(matrix, h)

\* the columns follow the list (each ISIN as often as the list has it)
C7_IsinColumnsInListOrder ==
  RateBlockBuilt => \A i \in 1..N : CellAt(matrix, RateRow("ISIN"), i) = TextCell(rows[i].ISIN)

\* C8: for an empty instrument list write_projection_csv emits exactly one
\* row holding a single placeholder text cell and no formula cell, and
\* finishes normally, whatever the run parameters are.
C8_EmptyListPlaceholder ==
  (rows = <<>> /\ Stage > 2) =>
    /\ pc = "done" /\ ~fault
    /\ Len(out) = 1 /\ Len(out[1]) = 1
    /\ out[1][1] # Blank /\ ~IsFormula(out[1][1])
    /\ \A t \in 1..Len(out[1][1]) : ~IsRef(out[1][1][t])
    /\ matrix = <<>>

C8_Witness == rows = <<>> /\ pc = "done" /\ out # <<>> /\ Len(files) >= 2 /\ years >= 2

\* C9: excel_col_name maps every index n >= 1 to its bijective base-26 name:
\* 1 -> A, 26 -> Z, 27 -> AA, 52 -> AZ, 53 -> BA; reading the name with the
\* weights of 26 (A = 1 .. Z = 26) recovers n, so the mapping is injective.
C9_ExcelColName ==
  pc = "returned" =>
    /\ colOut # <<>>
    /\ \A p \in 1..Len(colOut) : \E l \in 1..26 : Letters[l] = colOut[p]
    /\ ColumnNumber(colOut) = colIn
    /\ colIn = 1 => colOut = <<"A">>
    /\ colIn = 26 => colOut = <<"Z">>
    /\ colIn = 27 => colOut = <<"A", "A">>
    /\ colIn = 52 => colOut = <<"A", "Z">>
    /\ colIn = 53 => colOut = <<"B", "A">>

C9_Witness == pc = "returned" /\ colIn = 53 /\ colOut = <<"B", "A">>

\* the CAGR an overview line or a projection column shows for instrument i
ShownInOverview(i) == overview[i].CAGR

ShownInProjection(i) == CellAt(matrix, RateRow("CAGR brut annuel"), i)

\* C10: a metric that cannot be derived degrades to an explicit absent value,
\* never to zero, in every output: in the overview table and in the
\* projection sheet an instrument with an unmeasurable CAGR is
\* distinguishable from an instrument with a measured CAGR of 0.
C10_AbsentNeverZero ==
  /\ Stage >= 2 =>
       \A i, j \in 1..N :
         (rows[i].CAGR = None /\ rows[j].CAGR = Zero) => ShownInOverview(i) # ShownInOverview(j)
  /\ RateBlockBuilt =>
       \A i, j \in 1..N :
         (rows[i].CAGR = None /\ rows[j].CAGR = Zero) => ShownInProjection(i) # ShownInProjection(j)

\* the overview table alone keeps the two apart
C10_OverviewKeepsAbsent ==
  Stage >= 2 =>
    \A i, j \in 1..N :
      (rows[i].CAGR = None /\ rows[j].CAGR = Zero) => ShownInOverview(i) # ShownInOverview(j)

\* ------------------------------------------------ the scraper's documents
\* position in the list of the ISIN a document was written for
\* the loop body on this answer ends in an except clause: the profile request
\* fails, the page has no name, the heatmap request fails, or the CAGR step
\* raises
AnswerRaises(answer) ==
  \/ answer.profile # "ok"
  \/ answer.nom.tag # "str"
  \/ answer.heatmap.tag = "raise"
  \/ /\ ScrapeComputeCagrFromHeatmap(answer.heatmap) = None
     /\ ComputeCagrFromMaxReturn(ParseProfileHtml(answer, answer.isin), today).tag
          = "raise"

\* the positions of the list whose loop body is over, and those of them that
\* wrote a document
Processed == 1..(idx - 1)

Wrote == {k \in Processed : ~AnswerRaises(site[k])}

\* the position that wrote the document of isin: the last one of its ISIN
PositionOf(isin) ==
  CHOOSE i \in Wrote :
    site[i].isin = isin /\ \A j \in Wrote : site[j].isin = isin => j <= i

\* what the grid of a written document yields, and what the fallback yields
\* on the texts the site gave for its ISIN
GridCagrOf(isin) == ScrapeComputeCagrFromHeatmap(documents[isin].heatmap_mensuelle)

FallbackCagrOf(isin) ==
  ComputeCagrFromMaxReturn(ParseProfileHtml(site[PositionOf(isin)], isin), today)

RecordedCagr(isin) == documents[isin].cagr_depuis_creation_pct

RecordedSource(isin) == documents[isin].cagr_depuis_creation_source

\* the document as the exporter reads it back
AsExporterData(doc) ==
  [isin |-> doc.isin, nom |-> "", description |-> None,
   cagr |-> doc.cagr_depuis_creation_pct, heatmap |-> doc.heatmap_mensuelle,
   ter_text |-> None]

\* C11: for every instrument, a CAGR the return grid yields is the one
\* recorded and the fallback estimate is not used; the fallback is used only
\* when the grid yields none; when both are absent the recorded CAGR is null,
\* not zero.  The exporter keeps a recorded CAGR, derives one from the grid
\* only when none is recorded, and leaves it null when the grid yields none.
C11_GridCagrHasPriority ==
  \A isin \in DOMAIN documents :
    /\ GridCagrOf(isin) # None =>
         /\ RecordedCagr(isin) = Round6(GridCagrOf(isin))
         /\ RecordedSource(isin) # Source("max_return_plus_launch_date")
    /\ RecordedSource(isin) = Source("max_return_plus_launch_date") =>
         /\ GridCagrOf(isin) = None
         /\ RecordedCagr(isin) = Round6(FallbackCagrOf(isin))
    /\ (GridCagrOf(isin) = None /\ FallbackCagrOf(isin) = None) =>
         /\ RecordedCagr(isin) = None
         /\ RecordedCagr(isin) # Zero
    /\ LET row == OverviewRow(AsExporterData(documents[isin]))[1]
       IN  /\ IsNumber(RecordedCagr(isin)) => row.CAGR = RecordedCagr(isin)
           /\ RecordedCagr(isin) = None =>
                row.CAGR = ComputeCagrFromHeatmap(documents[isin].heatmap_mensuelle)
           /\ (RecordedCagr(isin) = None
                 /\ ComputeCagrFromHeatmap(documents[isin].heatmap_mensuelle) = None) =>
                (row.CAGR = None /\ row.CAGR # Zero)

\* a document whose grid yields a CAGR while the fallback would have yielded
\* another number, and a document for which both are absent
C11_Witness ==
  /\ \E isin \in DOMAIN documents :
       /\ GridCagrOf(isin) # None
       /\ IsNumber(FallbackCagrOf(isin))
       /\ Round6(FallbackCagrOf(isin)) # Round6(GridCagrOf(isin))
       /\ RecordedCagr(isin) = Round6(GridCagrOf(isin))
  /\ pc = "done"

\* C12: in every document the scraper writes the provenance tag fits the
\* CAGR value: it is the grid tag exactly when the value was computed from the
\* grid, the fallback tag exactly when it was computed from the maximum return
\* and the launch date, and null exactly when the value is null.
C12_ProvenanceTag ==
  \A isin \in DOMAIN documents :
    /\ RecordedSource(isin) \in {None, Source("heatmap_mensuelle"),
                                 Source("max_return_plus_launch_date")}
    /\ RecordedSource(isin) = Source("heatmap_mensuelle") <=>
         (GridCagrOf(isin) # None /\ RecordedCagr(isin) = Round6(GridCagrOf(isin)))
    /\ RecordedSource(isin) = Source("max_return_plus_launch_date") <=>
         /\ GridCagrOf(isin) = None
         /\ FallbackCagrOf(isin) # None
         /\ RecordedCagr(isin) = Round6(FallbackCagrOf(isin))
    /\ RecordedSource(isin) = None <=> RecordedCagr(isin) = None

\* a run that wrote a document of each provenance
C12_Witness ==
  /\ \E isin \in DOMAIN documents :
       RecordedSource(isin) = Source("max_return_plus_launch_date")
  /\ \E isin \in DOMAIN documents :
       RecordedSource(isin) = Source("heatmap_mensuelle")
  /\ pc = "done"

\* ------------------------------------------------- the analytics results
\* the call of fn has returned
Returned(fn) == pc = "returned" /\ call.fn = fn

\* the rows of a heatmap (none when it is missing)
RowsOf(h) == IF h.tag = "dict" THEN h.values ELSE <<>>

HasReturn(row) == row.return_pct.tag = "num"

HasMonth(row) == row.month_index.tag = "int"

HasYear(row) == ParseInt(StrOf(row.year)).tag = "int"

\* positions of the return points of a grid, as the exporter's CAGR and the
\* scraper's CAGR take them
ExporterPoints(h) == {i \in 1..Len(RowsOf(h)) : HasReturn(RowsOf(h)[i])}

ScraperPoints(h) ==
  {i \in 1..Len(RowsOf(h)) :
     HasReturn(RowsOf(h)[i]) /\ HasMonth(RowsOf(h)[i]) /\ HasYear(RowsOf(h)[i])}

\* the product of the factors 1 + r/100 over the points I is <= 0: a factor
\* is 0, or the negative factors are odd in number
ProductNotPositive(h, I) ==
  \/ \E i \in I : RowsOf(h)[i].return_pct = Norm(-100, 0)
  \/ Cardinality({i \in I : Less(RowsOf(h)[i].return_pct, Norm(-100, 0))}) % 2 = 1

\* the result is absent in the four cases and a number otherwise
AbsentOrNumber(h, I) ==
  /\ ret.tag \in {"None", "num"}
  /\ (h = None \/ RowsOf(h) = <<>> \/ I = {} \/ ProductNotPositive(h, I)) =>
       (ret = None /\ ret # Zero)
  /\ ~(h = None \/ RowsOf(h) = <<>> \/ I = {} \/ ProductNotPositive(h, I)) =>
       IsNumber(ret)

GrowthOver(h, I) ==
  LET RECURSIVE Over(_)
      Over(S) == IF S = {} THEN One
                 ELSE LET i == CHOOSE x \in S : TRUE
                      IN  Mul(GrowthFactor(RowsOf(h)[i].return_pct), Over(S \ {i}))
  IN  Over(I)

\* the rate r is the growth c of n points raised to 12 / n, as a percent
AnnualizedOver(r, c, n) ==
  IF "pct_of" \in DOMAIN r
  THEN r.pct_of.base = c /\ r.pct_of.num * n = 12 * r.pct_of.den
  ELSE \/ c = One /\ r = Zero
       \/ 12 % n = 0 /\ GrowthFactor(r) = IntPow(c, 12 \div n)

\* C14: the CAGR is annualized with the exponent 12 / point_count, where
\* point_count is the number of monthly observations present in the grid, not
\* the calendar span from the first to the last month; twelve monthly returns
\* of 0 yield a CAGR of 0.
C14_PointCountExponent ==
  /\ (Returned("compute_cagr_from_heatmap") /\ IsNumber(ret)) =>
       AnnualizedOver(ret, GrowthOver(call.heatmap, ExporterPoints(call.heatmap)),
                      Cardinality(ExporterPoints(call.heatmap)))
  /\ (Returned("scrape_compute_cagr_from_heatmap") /\ IsNumber(ret)) =>
       AnnualizedOver(ret, GrowthOver(call.heatmap, ScraperPoints(call.heatmap)),
                      Cardinality(ScraperPoints(call.heatmap)))
  /\ ((Returned("compute_cagr_from_heatmap")
         \/ Returned("scrape_compute_cagr_from_heatmap"))
        /\ call.heatmap = FlatYear) => ret = Zero

\* a grid with a gap: January and December of one year, a doubling over two
\* points, annualized to 2^6 - 1 = 6300 %
C14_Witness ==
  /\ Returned("scrape_compute_cagr_from_heatmap")
  /\ call.heatmap = Grid(<<Row(Year2021, IntVal(12), Zero),
                           Row(Year2021, IntVal(1), Norm(100, 0))>>)
  /\ ret = Norm(6300, 0)

\* the points compute_yearly_returns_from_heatmap groups: rows with a year, a
\* month and a return
YearPoints(h) ==
  {i \in 1..Len(RowsOf(h)) :
     HasYear(RowsOf(h)[i]) /\ HasMonth(RowsOf(h)[i]) /\ HasReturn(RowsOf(h)[i])}

YearAt(h, i) == ParseInt(StrOf(RowsOf(h)[i].year)).v

YearsPresent(h) == {YearAt(h, i) : i \in YearPoints(h)}

\* the points of year y
MonthsPresent(h, y) == {i \in YearPoints(h) : YearAt(h, i) = y}

\* the months present compounded, minus 1, as a percent
YearReturn(h, y) == Mul(MinusOne(GrowthOver(h, MonthsPresent(h, y))), Norm(100, 0))

\* position of year y among the years present, in ascending order
Rank(h, y) == Cardinality({z \in YearsPresent(h) : z <= y})

\* C15: for every non-empty return grid the list of yearly returns has
\* exactly one entry per distinct year present in the grid, and the entries
\* are in ascending order of year whatever the order of the points.
C15_OneEntryPerYearAscending ==
  (Returned("compute_yearly_returns_from_heatmap") /\ RowsOf(call.heatmap) # <<>>) =>
    /\ Len(ret) = Cardinality(YearsPresent(call.heatmap))
    /\ \A y \in YearsPresent(call.heatmap) :
         ret[Rank(call.heatmap, y)] = YearReturn(call.heatmap, y)

\* the later year comes first in the input: 2021 returned 100 %, 2020 -300 %
C15_Witness ==
  /\ Returned("compute_yearly_returns_from_heatmap")
  /\ call.heatmap = Grid(<<Row(Year2021, IntVal(1), Norm(100, 0)),
                           Row(Year2020, IntVal(2), Norm(-200, 0)),
                           Row(Year2020, IntVal(12), Norm(100, 0))>>)
  /\ ret = <<Norm(-300, 0), Norm(100, 0)>>

\* C16: the yearly return of a year is the product of 1 + r/100 over exactly
\* the months present for that year, minus 1, as a percent: missing months
\* contribute no factor and the points of other years do not contribute.
C16_MonthsPresentOnly ==
  Returned("compute_yearly_returns_from_heatmap") =>
    \A y \in YearsPresent(call.heatmap) :
      /\ \E k \in 1..Len(ret) : ret[k] = YearReturn(call.heatmap, y)
      /\ \A i \in MonthsPresent(call.heatmap, y) :
           MonthsPresent(call.heatmap, y) = {i} =>
             \E k \in 1..Len(ret) : ret[k] = RowsOf(call.heatmap)[i].return_pct

\* 2021 has two months (a doubling and a halving: 0 %), 2020 has one (100 %)
C16_Witness ==
  /\ Returned("compute_yearly_returns_from_heatmap")
  /\ call.heatmap = Grid(<<Row(Year2021, IntVal(2), Norm(-50, 0)),
                           Row(Year2020, IntVal(12), Norm(100, 0)),
                           Row(Year2021, IntVal(1), Norm(100, 0))>>)
  /\ ret = <<Norm(100, 0), Zero>>

\* the yearly returns of the document of a normalizer call
YearlyOf(data) == ComputeYearlyReturnsFromHeatmap(data.heatmap)

\* C17: in every instrument record the negative-year count is the number of
\* yearly returns strictly below 0 and the worst year is the smallest yearly
\* return; with no yearly return the worst year is absent and the count is
\* emitted as empty, not as 0.
C17_NegativeYearsAndWorstYear ==
  Returned("build_overview_rows") =>
    LET yearly == YearlyOf(call.files[1])
        row    == ret[1]
    IN  IF yearly = <<>>
        THEN row.Pire_annee = None /\ row.Nb_annees_negatives = Text(<<>>)
        ELSE /\ row.Nb_annees_negatives =
                  IntVal(Cardinality({k \in 1..Len(yearly) : Less(yearly[k], Zero)}))
             /\ \E k \in 1..Len(yearly) : row.Pire_annee = yearly[k]
             /\ \A k \in 1..Len(yearly) : ~Less(yearly[k], row.Pire_annee)

\* a record with a flat year, a losing year and a winning year
C17_Witness ==
  /\ Returned("build_overview_rows")
  /\ YearlyOf(call.files[1]) = <<Norm(-300, 0), Zero>>
  /\ ret[1].Nb_annees_negatives = IntVal(1)
  /\ ret[1].Pire_annee = Norm(-300, 0)

\* the outcome of the fallback on the texts and the date of the call
FallbackAbsentCase ==
  LET meta == call.parsed._meta_returns
      pct  == ParsePercentText(meta.max_return_text)
      date == ParseFrenchDate(meta.launch_date_text)
  IN  \/ pct = None
      \/ date = None
      \/ DaysBetween(date, call.today) <= 0
      \/ GrowthFactor(pct).m <= 0

\* C18: compute_cagr_from_max_return returns absent when the maximum return
\* is missing or unparseable, the launch date is missing or invalid, the
\* launch date is not before today, or the factor 1 + max_return/100 is <= 0;
\* it returns a number in every other case and never raises.
C18_FallbackAbsentOrNumber ==
  Returned("compute_cagr_from_max_return") =>
    /\ ret.tag # "raise"
    /\ FallbackAbsentCase => ret = None
    /\ ~FallbackAbsentCase => IsNumber(ret)

\* the part of C18 that holds: absent in exactly the four cases
C18_AbsentCases ==
  Returned("compute_cagr_from_max_return") => (FallbackAbsentCase <=> ret = None)

\* name and axis joined and lower-cased
CombinedText(name, axis) ==
  Lower((IF name.tag = "str" THEN name.s ELSE <<>>) \o <<" ">>
          \o (IF axis.tag = "str" THEN axis.s ELSE <<>>))

\* text has the four characters of word at position i
WordAt(text, i, word) ==
  i + 3 <= Len(text) /\ \A k \in 0..3 : text[i + k] = word[k + 1]

Mentions(text, word) == \E i \in 1..Len(text) : WordAt(text, i, word)

\* C19: classify_category is total and returns one of Core, Hedge and
\* Satellite for every name and axis, absent ones included: Core when the
\* lower-cased name and axis contain "core" (also when they contain "hedg"),
\* else Hedge when they contain "hedg", else Satellite.
C19_ClassifyCategory ==
  Returned("classify_category") =>
    LET text == CombinedText(call.name, call.axis)
        core == Mentions(text, <<"c", "o", "r", "e">>)
        hedg == Mentions(text, <<"h", "e", "d", "g">>)
    IN  /\ ret \in {"Core", "Hedge", "Satellite"}
        /\ ret = "Core" <=> core
        /\ ret = "Hedge" <=> (~core /\ hedg)
        /\ ret = "Satellite" <=> (~core /\ ~hedg)

\* a name with both words, and an axis with "hedg"
C19_Witness ==
  /\ Returned("classify_category")
  /\ call.name = NameCoreHedged
  /\ call.axis = AxisHedged
  /\ ret = "Core"

\* the (year, month) pairs of a grid: rows with a year and a month in 1..12
GridMonths(h) ==
  {i \in 1..Len(RowsOf(h)) :
     /\ HasYear(RowsOf(h)[i])
     /\ HasMonth(RowsOf(h)[i])
     /\ RowsOf(h)[i].month_index.v \in 1..12}

\* row i holds the earliest pair
Earliest(h, i) ==
  \A j \in GridMonths(h) :
    \/ YearAt(h, i) < YearAt(h, j)
    \/ YearAt(h, i) = YearAt(h, j)
         /\ RowsOf(h)[i].month_index.v <= RowsOf(h)[j].month_index.v

\* C20: the launch date of a record is the date of the description sentence
\* whenever that parses to a valid date; only otherwise the earliest (year,
\* month) of the return grid (by year, then month, over the points whose
\* month is in 1..12) on day 1; absent when there is neither.
C20_LaunchDateOrder ==
  Returned("build_overview_rows") =>
    LET data == call.files[1]
        described == ExtractLaunchDateFromDescription(data.description)
        shown == ret[1].Date_lancement
    IN  /\ described # None => shown = StrfDate(described)
        /\ (described = None /\ GridMonths(data.heatmap) # {}) =>
             \E i \in GridMonths(data.heatmap) :
               /\ Earliest(data.heatmap, i)
               /\ shown = StrfDate(Date(YearAt(data.heatmap, i),
                                        RowsOf(data.heatmap)[i].month_index.v, 1))
        /\ (described = None /\ GridMonths(data.heatmap) = {}) => shown = <<>>

\* a description whose date is no date (31 June) and a grid that starts in
\* December 2020, given out of order
C20_Witness ==
  /\ Returned("build_overview_rows")
  /\ call.files[1].description = DescJuin31
  /\ call.files[1].heatmap = Grid(<<Row(Year2021, IntVal(1), Norm(100, 0)),
                                    Row(Year2020, IntVal(12), Norm(100, 0))>>)
  /\ ret[1].Date_lancement = <<"0", "1", "/", "1", "2", "/", "2", "0", "2", "0">>

\* ---------------------------------------------------------- age in years
\* date a is after date b
After(a, b) ==
  \/ a.year > b.year
  \/ a.year = b.year /\ a.month > b.month
  \/ a.year = b.year /\ a.month = b.month /\ a.day > b.day

\* n = floor(days / 365.2425)
IsFloorOfYears(n, days) ==
  n >= 0 /\ n * 3652425 <= days * 10000 /\ days * 10000 < (n + 1) * 3652425

\* C21: years_between returns floor(days since launch / 365.2425), a whole
\* number >= 0, when the launch date is known and not after the current date
\* (0 when both are the same day), and absent when the launch date is unknown
\* or in the future.
C21_YearsBetween ==
  Returned("years_between") =>
    IF call.start_date = None \/ After(call.start_date, call.end_date)
    THEN ret = None
    ELSE /\ ret.tag = "int"
         /\ IsFloorOfYears(ret.v, DaysBetween(call.start_date, call.end_date))
         /\ call.start_date = call.end_date => ret = IntVal(0)

\* launch and current date are the same day
C21_Witness ==
  /\ Returned("years_between")
  /\ call.start_date = Date(2021, 3, 12)
  /\ call.end_date = Date(2021, 3, 12)
  /\ ret = IntVal(0)

\* ------------------------------------------------- formatting round trip
\* p is v rounded to ndigits decimals: v itself when it has no more places,
\* else a decimal of at most ndigits places within half a unit of the last
\* place of v
RoundedTo(p, v, ndigits) ==
  IF v.e <= ndigits THEN p = v
  ELSE /\ IsNumber(p)
       /\ p.e <= ndigits
       /\ IF p.m = 0 THEN 2 * Abs(v.m) <= Pow10(v.e - ndigits)
          ELSE 2 * Abs(p.m * Pow10(ndigits - p.e) * Pow10(v.e - ndigits) - v.m)
                 <= Pow10(v.e - ndigits)

\* C22: for every value v >= 0 and each precision the writers use,
\* fmt_number(v, ndigits) read back by parse_percent and by parse_aum_meur is
\* v rounded to ndigits decimals (the decimal comma is accepted, no digit is
\* lost or rescaled); for parse_percent also when v < 0.
C22_FormatParseRoundTrip ==
  Returned("fmt_number") =>
    /\ RoundedTo(ret.percent, call.value, call.ndigits)
    /\ call.value.m >= 0 => RoundedTo(ret.aum, call.value, call.ndigits)

\* 1234.5 at two decimals is written with a comma and read back by both
C22_Witness ==
  /\ Returned("fmt_number")
  /\ call.value = Norm(12345, 1)
  /\ call.ndigits = 2
  /\ ret.text = <<"1", "2", "3", "4", ",", "5">>
  /\ ret.percent = Norm(12345, 1)
  /\ ret.aum = Norm(12345, 1)

\* ------------------------------------------------------ failure isolation
\* the normalizer on a directory that holds the documents a and b written
\* by the run, and files without ISIN before and between them
RowsAround(a, b) ==
  BuildOverviewRows(<<NoIsinDoc, AsExporterData(documents[a]), NoIsinDoc,
                      AsExporterData(documents[b])>>)

C27_RunOutcomes ==
  /\ pc = "done" =>
       /\ \A k \in 1..Len(site) :
            (site[k].isin \in DOMAIN documents) # (site[k].isin \in DOMAIN errors)
       /\ exit_status = 2 <=> DOMAIN errors # {}
       /\ exit_status = 0 <=> DOMAIN errors = {}
  /\ \A isin \in DOMAIN documents : "_meta_returns" \notin DOMAIN documents[isin]

\* the part of C27 that holds for a list that names an ISIN twice as well:
\* no ISIN is left without outcome, and the exit status and the documents
\* are as stated
C27_OutcomeForEveryIsin ==
  /\ pc = "done" =>
       /\ \A k \in 1..Len(site) :
            site[k].isin \in DOMAIN documents \cup DOMAIN errors
       /\ exit_status = 2 <=> DOMAIN errors # {}
       /\ exit_status = 0 <=> DOMAIN errors = {}
  /\ \A isin \in DOMAIN documents : "_meta_returns" \notin DOMAIN documents[isin]

\* ------------------------------------------------- projection sheet blocks
\* the set_cell calls of the five steps of write_projection_csv, in program
\* order
Steps ==
  << ParameterBlock(years, capital_initial, inflation, dca_mensuel),
     RateBlock(rows),
     NetGrowthBlock(rows, years, capital_initial),
     NoCostGrowthBlock(rows, years, capital_initial),
     SummaryBlock(rows, years) >>

RECURSIVE InsideGrid(_, _)
\* the calls of a step that are made before one of them leaves the grid
InsideGrid(writes, cc) ==
  IF writes = <<>> \/ writes[1][2] >= cc THEN <<>>
  ELSE <<writes[1]>> \o InsideGrid(Tail(writes), cc)

\* the cells step k has written when the function is at position pc
WrittenBy(steps, k) ==
  IF Stage > k + 1 THEN steps[k]
  ELSE IF Stage = k + 1 /\ fault THEN InsideGrid(steps[k], ColCount(rows))
  ELSE <<>>

\* the cells written so far, by block: parameters, rates (labels and one
\* column per instrument), fee-adjusted growth, fee-free growth, summary
BlocksOf(steps) ==
  LET first == WrittenBy(steps, 1)
  IN  << SubSeq(first, 1, 10),
         SubSeq(first, 11, Len(first)) \o WrittenBy(steps, 2),
         WrittenBy(steps, 3),
         WrittenBy(steps, 4),
         WrittenBy(steps, 5) >>

\* the rows a run of set_cell calls writes to
RowsWritten(writes) == {writes[i][1] : i \in DOMAIN writes}

\* no two calls of the run write the same cell
WrittenOnce(writes) ==
  \A i, j \in DOMAIN writes :
    i < j => <<writes[i][1], writes[i][2]>> # <<writes[j][1], writes[j][2]>>

\* the grid is the one the calls of the blocks leave
GridOfBlocks(b) ==
  matrix = SetCells([m |-> <<>>, col_count |-> ColCount(rows), fault |-> FALSE],
                    Flatten(b)).m

\* blocks a and b of the sheet: b lies strictly below a
StackedBlocks(b) ==
  \A k \in 1..5 : \A j \in (k + 1)..5 :
    \A r \in RowsWritten(b[k]) : \A q \in RowsWritten(b[j]) : r < q

\* C24: in write_projection_csv, for every N >= 1 and horizon >= 1, the
\* parameter block, the rate block, the fee-adjusted growth block, the
\* fee-free growth block and the summary block occupy pairwise disjoint row
\* ranges stacked in that order, each later block starting strictly below the
\* last row of the block above it, and no cell is written more than once
\* during one invocation.
C24_BlocksStackedWrittenOnce ==
  (rows # <<>> /\ Stage >= 3) =>
    LET b == BlocksOf(Steps)
    IN  /\ GridOfBlocks(b)
        /\ StackedBlocks(b)
        /\ WrittenOnce(Flatten(b))

\* two instruments over two years, every block has cells
C24_Witness ==
  /\ N >= 2
  /\ years >= 2
  /\ Stage >= 6
  /\ \A k \in 1..5 : BlocksOf(Steps)[k] # <<>>
  /\ RowsWritten(BlocksOf(Steps)[3]) = 12..(13 + years)
  /\ RowsWritten(BlocksOf(Steps)[4]) = (16 + years)..(17 + 2 * years)

\* ------------------------------------------------------- heatmap retrieval
\* positions of the timer requests and of the view-mode requests among the
\* requests sent
TimerRequests == {i \in DOMAIN requests : requests[i].kind = "timer"}

ViewModeRequests == {i \in DOMAIN requests : requests[i].kind = "viewmode"}

\* request i was answered, and with a grid
HeatmapAt(i) ==
  requests[i].response.tag = "xml" /\ requests[i].response.heatmap # None

\* request i was answered, and without a grid
NoHeatmapAt(i) ==
  requests[i].response.tag = "xml" /\ requests[i].response.heatmap = None

\* the answer to request i reschedules the timer
Reschedules(i) == requests[i].response.timer_set

\* after request i the function makes, or is about to make, a timer request
TimerAttemptFollows(i) ==
  \/ i < Len(requests) /\ requests[i + 1].kind = "timer"
  \/ i = Len(requests) /\ pc = "timer"

\* after request i the function is in the view-mode fallback
FallbackFollows(i) ==
  \/ i < Len(requests) /\ requests[i + 1].kind = "viewmode"
  \/ i = Len(requests) /\ pc = "viewmode"
  \/ /\ i = Len(requests)
     /\ pc = "returned"
     /\ ret = None
     /\ ExtractWicketAjaxUrl(call.profile_html) = None

\* C25: in fetch_heatmap_data a timer answer without heatmap is followed by
\* another timer attempt only when that answer reschedules the timer (holds
\* "Wicket.Timer.set(") and fewer than 5 attempts have been made; an answer
\* that neither has a heatmap nor reschedules the timer ends the polling and
\* goes to the view-mode fallback.
C25_RetryOnlyWhenRescheduled ==
  \A i \in TimerRequests :
    NoHeatmapAt(i) =>
      /\ TimerAttemptFollows(i) => (Reschedules(i) /\ i < 5)
      /\ ~Reschedules(i) => FallbackFollows(i)

\* the requests of one call are in order and in number as stated
PollingInOrder ==
  /\ Cardinality(TimerRequests) <= 5
  /\ Cardinality(ViewModeRequests) <= 1
  /\ \A i \in TimerRequests :
       HeatmapAt(i) =>
         /\ i = Len(requests)
         /\ pc = "returned"
         /\ ret = requests[i].response.heatmap
  /\ \A i \in ViewModeRequests :
       /\ ExtractWicketAjaxUrl(call.profile_html) # None
       /\ i = Len(requests)
       /\ pc = "returned"
       /\ \A j \in 1..(i - 1) : j \in TimerRequests /\ NoHeatmapAt(j)
       /\ ExtractTimerAjaxUrl(call.profile_html) = None => i = 1

\* C26: for one instrument fetch_heatmap_data sends at most 5 timer requests
\* and at most 1 view-mode request and then terminates; it stops polling at
\* the first answer with a heatmap and returns that heatmap; the view-mode
\* request is sent only after the polling ended without heatmap (or the page
\* has no timer URL) and only if the page has a view-mode URL.
C26_BoundedPollingTerminates == []PollingInOrder /\ <>(pc = "returned")

\* five timer answers without heatmap, then the heatmap of the view mode
C26_Witness ==
  /\ pc = "returned"
  /\ Cardinality(TimerRequests) = 5
  /\ ViewModeRequests = {6}
  /\ ret = FlatYear

\* ------------------------------------------------------ captured elements
\* reading the events as markup, independent of the depth counters: a void
\* element has a start tag and no end tag
VoidTags == {"br"}

IsOpening(event) == event.type = "start" /\ event.tag \notin VoidTags

RECURSIVE WellNestedFrom(_, _, _)
\* from position j on, with the elements of open still open, every end tag
\* closes the innermost open element
WellNestedFrom(events, j, open) ==
  IF j > Len(events) THEN TRUE
  ELSE IF IsOpening(events[j])
  THEN WellNestedFrom(events, j + 1, <<events[j].tag>> \o open)
  ELSE IF events[j].type = "end"
  THEN /\ open # <<>>
       /\ open[1] = events[j].tag
       /\ WellNestedFrom(events, j + 1, Tail(open))
  ELSE WellNestedFrom(events, j + 1, open)

WellNested(events) == WellNestedFrom(events, 1, <<>>)

RECURSIVE EndOf(_, _, _)
\* the position of the end tag of an element with d elements open at
\* position j, itself included; 0 when the events end before it
EndOf(events, j, d) ==
  IF j > Len(events) THEN 0
  ELSE IF IsOpening(events[j]) THEN EndOf(events, j + 1, d + 1)
  ELSE IF events[j].type = "end"
  THEN IF d = 1 THEN j ELSE EndOf(events, j + 1, d - 1)
  ELSE EndOf(events, j + 1, d)

\* the start tags of target elements
TargetStarts(events) ==
  {i \in DOMAIN events : IsOpening(events[i]) /\ events[i].testid \in TargetIds}

\* the text events between positions i and j
DataBetween(events, i, j) ==
  LET inner == SubSeq(events, i + 1, j - 1)
  IN  SelectSeq(inner, LAMBDA event : event.type = "data" /\ event.data # <<>>)

\* the cleaned text between the tags at positions i and j
TextBetween(events, i, j) ==
  LET chunks == DataBetween(events, i, j)
  IN  CleanText(Join([k \in DOMAIN chunks |-> chunks[k].data]))

RECURSIVE TextsOfElements(_, _, _)
\* the non-empty texts of the elements of target id tid that are closed, in
\* the order of their end tags, from position j on
TextsOfElements(events, tid, j) ==
  IF j > Len(events) THEN <<>>
  ELSE LET closed == {i \in TargetStarts(events) :
                        events[i].testid = tid /\ EndOf(events, i + 1, 1) = j}
           here   == IF closed = {} THEN <<>>
                     ELSE LET i == CHOOSE i \in closed : TRUE
                          IN  IF TextBetween(events, i, j) = <<>> THEN <<>>
                              ELSE <<TextBetween(events, i, j)>>
       IN  here \o TextsOfElements(events, tid, j + 1)

\* the target elements still open, outermost first
OpenTargets(events) ==
  LET open == {i \in TargetStarts(events) : EndOf(events, i + 1, 1) = 0}
  IN  SelectSeq([i \in DOMAIN events |-> i], LAMBDA i : i \in open)

\* the captures are those of the open target elements, each with the text
\* since its start tag
CapturesAreOpenTargets(events) ==
  LET open == OpenTargets(events)
  IN  /\ Len(active) = Len(open)
      /\ \A k \in DOMAIN open :
           /\ active[k].id = events[open[k]].testid
           /\ LET chunks == DataBetween(events, open[k], Len(events) + 1)
              IN  active[k].buf = [n \in DOMAIN chunks |-> chunks[n].data]

\* C28: for any sequence of start-tag, end-tag and text events fed to
\* DataTestIdTextParser, a capture opened at the start tag of a target
\* element is closed at the end tag of that element, so the recorded text is
\* the text between its start and end tags; a start tag without end tag (a
\* void element such as <br>) inside a target element does not extend the
\* capture beyond the end tag of the target, and no capture stays active
\* with depth <= 0.
C28_CaptureEndsAtMatchingEndTag ==
  /\ WellNested(fed) =>
       /\ \A tid \in TargetIds : results[tid] = TextsOfElements(fed, tid, 1)
       /\ CapturesAreOpenTargets(fed)
  /\ \A k \in DOMAIN active : active[k].depth > 0

\* the part of C28 that holds: on markup without void elements, and on any
\* events as to the depth of the active captures
C28_WithoutVoidElements ==
  /\ (WellNested(fed) /\ \A j \in DOMAIN fed : fed[j].type = "start" => IsOpening(fed[j])) =>
       /\ \A tid \in TargetIds : results[tid] = TextsOfElements(fed, tid, 1)
       /\ CapturesAreOpenTargets(fed)
  /\ \A k \in DOMAIN active : active[k].depth > 0

\* ------------------------------------------------ the two CAGR functions
\* a and b are both absent or both present
SameAbsence(a, b) == (a = None) <=> (b = None)

\* every row of the grid has an integer year, an integer month and a return
CompleteRows(h) ==
  \A i \in 1..Len(RowsOf(h)) :
    HasReturn(RowsOf(h)[i]) /\ HasMonth(RowsOf(h)[i]) /\ HasYear(RowsOf(h)[i])

\* C29: compute_cagr_from_heatmap of the scraper and of the exporter are
\* equivalent: for every list of heatmap values, also with rows whose year is
\* no integer, whose month_index is missing or no integer, or in
\* non-chronological order, both return absent on the same inputs and
\* otherwise use the same set of points and the same point count.
C29_SameCagrInBothPrograms ==
  /\ Returned("compute_cagr_from_heatmap") =>
       /\ SameAbsence(ret, ScrapeComputeCagrFromHeatmap(call.heatmap))
       /\ ret # None => ExporterPoints(call.heatmap) = ScraperPoints(call.heatmap)
  /\ Returned("scrape_compute_cagr_from_heatmap") =>
       /\ SameAbsence(ret, ComputeCagrFromHeatmap(call.heatmap))
       /\ ret # None => ScraperPoints(call.heatmap) = ExporterPoints(call.heatmap)

\* the part of C29 that holds: on grids whose rows are complete, in any
\* order, both functions return the same
C29_SameCagrOnCompleteRows ==
  /\ (Returned("compute_cagr_from_heatmap") /\ CompleteRows(call.heatmap)) =>
       ret = ScrapeComputeCagrFromHeatmap(call.heatmap)
  /\ (Returned("scrape_compute_cagr_from_heatmap") /\ CompleteRows(call.heatmap)) =>
       ret = ComputeCagrFromHeatmap(call.heatmap)

====
